---------------------------- MODULE Spec2Model ----------------------------
(***************************************************************************)
(* A model of the back end of the Akamai GTM Grafana datasource plugin:    *)
(* the QueryData handler with its per-query pipeline (zone list parsing,   *)
(* interval selection, window alignment, the reporting request and the     *)
(* mapping of the response), the CheckHealth handler and the pure          *)
(* functions the pipeline is built from.                                   *)
(*                                                                         *)
(* Time is counted in whole seconds since the Unix epoch.  Go rounds a     *)
(* time.Time relative to the zero time (year 1), which is a whole number   *)
(* of hours before the epoch, so rounding to 5 minutes or to 1 hour is the *)
(* same relative to either origin.                                         *)
(*                                                                         *)
(* A Go string is a sequence of one-character strings: <<"a", ",", "b">>.  *)
(***************************************************************************)
EXTENDS Integers, Sequences, FiniteSets, Bags

VARIABLES
    arch,       \* how this build converts a negative float64 to uint
    now,        \* the wall clock, read by time.Now()
    call,       \* the pure function under test and its arguments
    ret,        \* what that function returned
    ret2,       \* what a second application to the result returned
    pc,         \* where QueryData stands
    settings,   \* the data-source instance settings of the request
    user,       \* whether the request names a user (req.PluginContext.User # nil)
    nQueries,   \* len(req.Queries)
    idx,        \* how many queries the loop of QueryData has taken up
    cur,        \* the query that query() is working on, with its progress
    responses,  \* response.Responses: RefID -> DataResponse
    retErr,     \* the error QueryData returned
    netCalls,   \* how many requests client.Do has sent since the request came in
    refs,       \* the RefIDs of the queries taken up so far, in order
    ctx         \* the caller's context: "live" or "cancelled"

vars == <<arch, now, call, ret, ret2, pc, settings, user, nQueries, idx, cur,
          responses, retErr, netCalls, refs, ctx>>

None == [none |-> TRUE]

---------------------------------------------------------------------------
(* Durations and program constants (seconds).                              *)

Minute == 60
Hour == 60 * Minute
FiveMinutes == 5 * Minute

FOUR_WEEKS == 4 * 7 * 24
NINETY_DAYS == 90 * 24 * Hour

HOUR == "HOUR"
FIVE_MINUTES == "FIVE_MINUTES"

\* Interval is a string type: a value other than the two the plugin defines,
\* for which roundupTimeForInterval has its default case.
UNSUPPORTED == "DAY"

\* The two builds of uint(float64) for a negative operand that Go allows
\* (the result is implementation-dependent): amd64 converts through int64
\* and reinterprets the bits (wraps), arm64 saturates at 0.
Archs == {"wrap", "saturate"}

\* The modulus of the uint type, scaled from 2^64 to what TLC's integers
\* hold; every maxDataPoints and every hour count of the model is far below.
UintModulus == 2 ^ 30

---------------------------------------------------------------------------
(* calculateInterval                                                       *)

\* time.Duration.Hours() followed by truncation toward zero: the whole
\* hours of a span given in seconds.
WholeHours(span) ==
    IF span >= 0 THEN span \div Hour ELSE 0 - ((0 - span) \div Hour)

\* uint(f) for the float64 f whose integer part is h.
UintOfHours(h, a) ==
    IF h >= 0 THEN h
    ELSE IF a = "wrap" THEN UintModulus + h
    ELSE 0

\* An interval the plugin does not define, where the code returns HOUR for a
\* range of at least maxDataPoints hours.
calculateInterval_Daily(from, to, maxDataPoints, a) ==
    LET timeRangeHours == UintOfHours(WholeHours(to - from), a) IN
    IF timeRangeHours > FOUR_WEEKS THEN HOUR
    ELSE IF timeRangeHours >= maxDataPoints THEN UNSUPPORTED
    ELSE FIVE_MINUTES

calculateInterval(from, to, maxDataPoints, a) ==
    LET timeRangeHours == UintOfHours(WholeHours(to - from), a) IN
    IF timeRangeHours > FOUR_WEEKS THEN HOUR
    ELSE IF timeRangeHours >= maxDataPoints THEN HOUR
    ELSE FIVE_MINUTES

---------------------------------------------------------------------------
(* roundupTimeForInterval, adjustQueryTimes                                *)

\* Round as Truncate: always down to the boundary below.
Round_Down(t, d) ==
    IF d <= 0 THEN t ELSE t - (t % d)

\* Round as a ceiling that also moves a time already on a boundary.
Round_UpPast(t, d) ==
    IF d <= 0 THEN t ELSE t + d - (t % d)

\* time.Time.Round(d): the nearest multiple of d, halfway values rounded up.
Round(t, d) ==
    IF d <= 0 THEN t
    ELSE LET r == t % d IN
         IF r + r < d THEN t - r ELSE t + d - r

roundupTimeForInterval(t, interval) ==
    CASE interval = FIVE_MINUTES -> Round(t, FiveMinutes)
      [] interval = HOUR -> Round(t, Hour)
      [] OTHER -> t

\* The comparison the wrong way round.
timeBeforeOldestData_Reversed(t, oldestDataTime) == oldestDataTime < t

timeBeforeOldestData(t, oldestDataTime) == t < oldestDataTime

\* The clamp one hour past the oldest data.
limitTimeToOldestData_PastOldest(timeRounded, oldestDataTime) ==
    IF timeRounded < oldestDataTime THEN oldestDataTime + Hour ELSE timeRounded

limitTimeToOldestData(timeRounded, oldestDataTime) ==
    IF timeRounded < oldestDataTime THEN oldestDataTime ELSE timeRounded

ErrBeforeData == "Time range is before available data"
NoErr == "nil"

\* clock is the value time.Now() returns during the call.
adjustQueryTimes(from, to, interval, clock) ==
    LET fromRounded == roundupTimeForInterval(from, interval)
        toRounded == roundupTimeForInterval(to, interval)
        ninetyDaysAgo == roundupTimeForInterval(clock - NINETY_DAYS, interval)
    IN  IF timeBeforeOldestData(toRounded, ninetyDaysAgo)
        THEN [from |-> fromRounded, to |-> toRounded, err |-> ErrBeforeData]
        ELSE [from |-> limitTimeToOldestData(fromRounded, ninetyDaysAgo),
              to |-> toRounded, err |-> NoErr]

---------------------------------------------------------------------------
(* zonesListFromZones                                                      *)

Space == " "
Tab == "\t"
Comma == ","
Whitespace == {Space, Tab}

\* strings.Replace(s, " ", "", 1): only the first space goes.
RECURSIVE RemoveSpaces_FirstOnly(_)
RemoveSpaces_FirstOnly(s) ==
    IF s = <<>> THEN <<>>
    ELSE IF Head(s) = " " THEN Tail(s)
    ELSE <<Head(s)>> \o RemoveSpaces_FirstOnly(Tail(s))

\* strings.Replace(s, " ", "", -1)
RECURSIVE RemoveSpaces(_)
RemoveSpaces(s) ==
    IF s = <<>> THEN <<>>
    ELSE IF Head(s) = " " THEN RemoveSpaces(Tail(s))
    ELSE <<Head(s)>> \o RemoveSpaces(Tail(s))

\* strings.Split(s, ","): one more element than there are commas, so the
\* empty string gives one empty element.
RECURSIVE SplitComma(_)
SplitComma(s) ==
    IF s = <<>> THEN << <<>> >>
    ELSE LET rest == SplitComma(Tail(s)) IN
         IF Head(s) = "," THEN << <<>> >> \o rest
         ELSE << <<Head(s)>> \o Head(rest) >> \o Tail(rest)

\* The loop without its len(z) > 0 test.
DropEmpty_KeepAll(list) == list

RECURSIVE DropEmpty(_)
DropEmpty(list) ==
    IF list = <<>> THEN <<>>
    ELSE IF Len(Head(list)) > 0 THEN <<Head(list)>> \o DropEmpty(Tail(list))
    ELSE DropEmpty(Tail(list))

zonesListFromZones(zoneNames) ==
    LET rawList == SplitComma(RemoveSpaces(zoneNames)) IN
    DropEmpty(rawList)

---------------------------------------------------------------------------
(* The reporting endpoint's answers and gtmOpenApiQuery                    *)

\* A clock reading: day 100 after the epoch, on an hour boundary.
NowBase == NINETY_DAYS + 10 * 24 * Hour

ErrQueryJson == "json: cannot unmarshal query"
ErrSettingsJson == "json: cannot unmarshal settings"
ErrEnterZoneNames == "Enter zone names"
ErrEnterOneZoneName == "Enter one zone name"
ErrNewRequest == "client.NewRequest: invalid URL"
ErrTransport == "client.Do: transport error"
ErrParseInt == "strconv.ParseInt: invalid syntax"
ErrContextCanceled == "context canceled"

\* http.Response.Status for the status codes the model draws.
StatusLine(code) ==
    CASE code = 200 -> "200 OK"
      [] code = 201 -> "201 Created"
      [] code = 204 -> "204 No Content"
      [] code = 401 -> "401 Unauthorized"
      [] code = 403 -> "403 Forbidden"
      [] code = 404 -> "404 Not Found"
      [] code = 500 -> "500 Internal Server Error"
      [] OTHER -> "other status"

\* The POST body and URL gtmOpenApiQuery builds: the URL carries the two
\* times and the interval's name.
NewGtmDnsTrafficAllPropertiesReqDto(zoneName) ==
    [ObjectType |-> "fpdomain", ObjectIds |-> zoneName,
     Metrics |-> <<"startdatetime", "hits">>]

\* gtmOpenApiQuery with a second attempt after a transport error.
gtmOpenApiQuery_Retry(zoneNamesList, fromRounded, toRounded, interval, hostOK, reply) ==
    LET request == [method |-> "POST", start |-> fromRounded, end |-> toRounded,
                    interval |-> interval,
                    body |-> NewGtmDnsTrafficAllPropertiesReqDto(zoneNamesList)]
        sentNone == [request |-> request, sent |-> 0, panic |-> FALSE,
                     err |-> NoErr, Data |-> <<>>]
    IN  IF ~hostOK THEN [sentNone EXCEPT !.err = ErrNewRequest]
        ELSE IF reply.kind = "transport"
        THEN [sentNone EXCEPT !.sent = 2, !.err = ErrTransport]
        ELSE IF reply.status # 200
        THEN IF ~reply.body.decodes
             THEN [sentNone EXCEPT !.sent = 1, !.err = StatusLine(reply.status)]
             ELSE IF Len(reply.body.errors) = 0
             THEN [sentNone EXCEPT !.sent = 1, !.panic = TRUE]
             ELSE [sentNone EXCEPT !.sent = 1, !.err = reply.body.errors[1]]
        ELSE [sentNone EXCEPT !.sent = 1, !.Data = reply.body.data]

ErrDecode == "json: cannot unmarshal response"

\* gtmOpenApiQuery returning the error of Decode on a 200 answer.
gtmOpenApiQuery_CheckDecode(zoneNamesList, fromRounded, toRounded, interval, hostOK, reply) ==
    LET request == [method |-> "POST", start |-> fromRounded, end |-> toRounded,
                    interval |-> interval,
                    body |-> NewGtmDnsTrafficAllPropertiesReqDto(zoneNamesList)]
        sentNone == [request |-> request, sent |-> 0, panic |-> FALSE,
                     err |-> NoErr, Data |-> <<>>]
    IN  IF ~hostOK THEN [sentNone EXCEPT !.err = ErrNewRequest]
        ELSE IF reply.kind = "transport"
        THEN [sentNone EXCEPT !.sent = 1, !.err = ErrTransport]
        ELSE IF reply.status # 200
        THEN IF ~reply.body.decodes
             THEN [sentNone EXCEPT !.sent = 1, !.err = StatusLine(reply.status)]
             ELSE IF Len(reply.body.errors) = 0
             THEN [sentNone EXCEPT !.sent = 1, !.panic = TRUE]
             ELSE [sentNone EXCEPT !.sent = 1, !.err = reply.body.errors[1]]
        ELSE IF ~reply.body.decodes
        THEN [sentNone EXCEPT !.sent = 1, !.err = ErrDecode]
        ELSE [sentNone EXCEPT !.sent = 1, !.Data = reply.body.data]

\* hostOK: client.NewRequest can build a URL from the configured host.
\* reply: what client.Do gets back, a transport error or a status and a
\* body.  A body that decodes (as JSON, into whichever struct it is decoded
\* into) carries its "errors" titles and its "data" rows; one that does not
\* decode carries the rows that were decoded before the failure.
\* sent counts the calls of client.Do; panic is the index-out-of-range of
\* rspDto.Errors[0] on an empty error list.
gtmOpenApiQuery(zoneNamesList, fromRounded, toRounded, interval, hostOK, reply) ==
    LET request == [method |-> "POST", start |-> fromRounded, end |-> toRounded,
                    interval |-> interval,
                    body |-> NewGtmDnsTrafficAllPropertiesReqDto(zoneNamesList)]
        sentNone == [request |-> request, sent |-> 0, panic |-> FALSE,
                     err |-> NoErr, Data |-> <<>>]
    IN  IF ~hostOK THEN [sentNone EXCEPT !.err = ErrNewRequest]
        ELSE IF reply.kind = "transport"
        THEN [sentNone EXCEPT !.sent = 1, !.err = ErrTransport]
        ELSE IF reply.status # 200
        THEN IF ~reply.body.decodes
             THEN [sentNone EXCEPT !.sent = 1, !.err = StatusLine(reply.status)]
             ELSE IF Len(reply.body.errors) = 0
             THEN [sentNone EXCEPT !.sent = 1, !.panic = TRUE]
             ELSE [sentNone EXCEPT !.sent = 1, !.err = reply.body.errors[1]]
        ELSE [sentNone EXCEPT !.sent = 1, !.Data = reply.body.data]

---------------------------------------------------------------------------
(* query(): validation and the mapping of the rows                         *)

\* The checks of query() before the request, in the code's order: the
\* query's JSON, the raw zone string, the interval and the window, the
\* parsed zone list.
Validate(q, clock, a) ==
    LET interval == calculateInterval(q.From, q.To, q.MaxDataPoints, a)
        adj == adjustQueryTimes(q.From, q.To, interval, clock)
        zoneNamesList == zonesListFromZones(q.ZoneNames)
        failed == [err |-> NoErr, interval |-> "", from |-> 0, to |-> 0,
                   zoneNamesList |-> <<>>]
    IN  IF ~q.jsonOK THEN [failed EXCEPT !.err = ErrQueryJson]
        ELSE IF Len(q.ZoneNames) = 0 THEN [failed EXCEPT !.err = ErrEnterZoneNames]
        ELSE IF adj.err # NoErr
        THEN [failed EXCEPT !.err = adj.err, !.interval = interval]
        ELSE IF Len(zoneNamesList) = 0
        THEN [failed EXCEPT !.err = ErrEnterOneZoneName, !.interval = interval,
                            !.from = adj.from, !.to = adj.to]
        ELSE [err |-> NoErr, interval |-> interval, from |-> adj.from,
              to |-> adj.to, zoneNamesList |-> zoneNamesList]

Digits == <<"0", "1", "2", "3", "4", "5", "6", "7", "8", "9">>

IsDigit(c) == \E i \in 1 .. 10 : Digits[i] = c

DigitValue(c) == (CHOOSE i \in 1 .. 10 : Digits[i] = c) - 1

RECURSIVE DecimalValue(_)
DecimalValue(ds) ==
    IF ds = <<>> THEN 0
    ELSE 10 * DecimalValue(SubSeq(ds, 1, Len(ds) - 1)) + DigitValue(ds[Len(ds)])

\* ds without its leading zeros.
StripZeros(ds) ==
    LET nz == {i \in 1 .. Len(ds) : ds[i] # "0"}
    IN  IF nz = {} THEN <<>>
        ELSE SubSeq(ds, CHOOSE i \in nz : \A j \in 1 .. (i - 1) : ds[j] = "0", Len(ds))

\* Digit strings of one length compared as numbers: x <= y.
RECURSIVE DigitsLeq(_, _)
DigitsLeq(x, y) ==
    IF x = <<>> THEN TRUE
    ELSE IF DigitValue(Head(x)) # DigitValue(Head(y))
    THEN DigitValue(Head(x)) < DigitValue(Head(y))
    ELSE DigitsLeq(Tail(x), Tail(y))

\* 2^63 - 1, the largest int64.
MaxInt64Digits ==
    <<"9", "2", "2", "3", "3", "7", "2", "0", "3", "6", "8", "5", "4", "7", "7", "5", "8", "0", "7">>

\* The magnitude ds fits an int64 of the given sign (2^63 only when negative).
FitsInt64(ds, negative) ==
    LET m == StripZeros(ds) IN
    \/ Len(m) < Len(MaxInt64Digits)
    \/ /\ Len(m) = Len(MaxInt64Digits)
       /\ \/ DigitsLeq(m, MaxInt64Digits)
          \/ negative /\ m = [MaxInt64Digits EXCEPT ![Len(MaxInt64Digits)] = "8"]

\* strconv.ParseInt(s, 10, 64) followed by unixms/1000: an optional sign
\* and one or more digits within int64, else an error.  The quotient is
\* taken on the digits (all but the last three), the division truncating
\* toward zero, so that millisecond counts beyond TLC's integers stay exact.
ParseUnixMs(s) ==
    LET signed == Len(s) > 0 /\ s[1] \in {"+", "-"}
        negative == signed /\ s[1] = "-"
        ds == IF signed THEN Tail(s) ELSE s
        ok == /\ Len(ds) > 0
              /\ \A i \in 1 .. Len(ds) : IsDigit(ds[i])
              /\ FitsInt64(ds, negative)
        m == StripZeros(ds)
        whole == IF ok /\ Len(m) > 3 THEN DecimalValue(SubSeq(m, 1, Len(m) - 3))
                 ELSE 0
    IN  [ok |-> ok, seconds |-> IF negative THEN 0 - whole ELSE whole]

\* A float64: an infinity, a NaN, or the finite value mant * 2^exp of
\* either sign, where mant is odd, or zero with exp 0.  mant is a natural
\* number in limbs (see below).
Finite(negative, mant, exp) ==
    [class |-> "finite", negative |-> negative, mant |-> mant, exp |-> exp]
Zero(negative) == Finite(negative, <<>>, 0)
Infinite(negative) == [class |-> "Inf", negative |-> negative, mant |-> <<>>, exp |-> 0]
NaN == [class |-> "NaN", negative |-> FALSE, mant |-> <<>>, exp |-> 0]

\* Natural numbers of any size: the limbs in base 2^15, least significant
\* first, no zero limb at the top; zero is <<>>.  The operations go limb by
\* limb without recursion, a carry being looked up from the limbs below.
LimbBits == 15
LimbBase == 2 ^ LimbBits

\* f(v), with v computed before f is.
With(v, f(_)) == CHOOSE r \in {f(x) : x \in {v}} : TRUE

\* The sequence f(1), ..., f(n).
Tuple(f(_), n) == SubSeq([i \in 1 .. n |-> f(i)], 1, n)

\* The sum of f(i) >= 0 over the i in S: the size of the bag that holds f(i)
\* copies of each i.
Sum(f(_), S) == BagCardinality([i \in {j \in S : f(j) > 0} |-> f(i)])

Limb(a, i) == IF 1 <= i /\ i <= Len(a) THEN a[i] ELSE 0

\* a without the zero limbs at its top.
Trim(a) ==
    LET nz == {i \in 1 .. Len(a) : a[i] # 0}
    IN  IF nz = {} THEN <<>>
        ELSE SubSeq(a, 1, CHOOSE i \in nz : \A j \in (i + 1) .. Len(a) : a[j] = 0)

\* Each entry's excess over a limb moved to the next entry.
Carry(x) ==
    Tuple(LAMBDA i : (Limb(x, i) % LimbBase) + (Limb(x, i - 1) \div LimbBase), Len(x) + 1)

\* The number with the entries x[i] >= 0 at the limbs' places, in limbs.
\* After three rounds of Carry no entry exceeds LimbBase; a carry of one
\* then enters limb i when a limb below is full and all between are at
\* least LimbBase - 1.
Norm(x) ==
    LET y == Carry(Carry(Carry(x)))
        carry(i) == \E j \in 1 .. (i - 1) :
                       y[j] = LimbBase /\ \A l \in (j + 1) .. (i - 1) : y[l] >= LimbBase - 1
    IN  Trim(Tuple(LAMBDA i : (y[i] + (IF carry(i) THEN 1 ELSE 0)) % LimbBase, Len(y)))

\* a + b
Add(a, b) ==
    Norm(Tuple(LAMBDA i : Limb(a, i) + Limb(b, i),
               IF Len(a) > Len(b) THEN Len(a) ELSE Len(b)))

\* a - b, for a >= b: limb i borrows when a limb below is short and all
\* between are level or short.
Sub(a, b) ==
    LET d(i) == Limb(a, i) - Limb(b, i)
        borrow(i) == \E j \in 1 .. (i - 1) :
                        d(j) < 0 /\ \A l \in (j + 1) .. (i - 1) : d(l) <= 0
    IN  Trim(Tuple(LAMBDA i : (d(i) - (IF borrow(i) THEN 1 ELSE 0) + LimbBase) % LimbBase,
                   Len(a)))

\* a * k, for 0 <= k <= LimbBase
MulSmall(a, k) == Norm(Tuple(LAMBDA i : a[i] * k, Len(a)))

\* a * b: the products of two limbs, their low parts summed at place i + j - 1
\* and their high parts at the next place.
Mul(a, b) ==
    LET lo(i, j) == (Limb(a, i) * Limb(b, j)) % LimbBase
        hi(i, j) == (Limb(a, i) * Limb(b, j)) \div LimbBase
        column(k) == Sum(LAMBDA i : lo(i, k + 1 - i), 1 .. Len(a))
                     + Sum(LAMBDA i : hi(i, k - i), 1 .. Len(a))
    IN  Norm(Tuple(column, Len(a) + Len(b)))

\* a >= b
Geq(a, b) ==
    \/ Len(a) > Len(b)
    \/ /\ Len(a) = Len(b)
       /\ \/ \A i \in 1 .. Len(a) : a[i] = b[i]
          \/ \E i \in 1 .. Len(a) :
                a[i] > b[i] /\ \A j \in (i + 1) .. Len(a) : a[j] = b[j]

\* The number of bits of a: 2^(BitLen(a) - 1) <= a < 2^BitLen(a) for a > 0.
BitLen(a) ==
    IF a = <<>> THEN 0
    ELSE (Len(a) - 1) * LimbBits
         + CHOOSE k \in 1 .. LimbBits : 2 ^ (k - 1) <= a[Len(a)] /\ a[Len(a)] < 2 ^ k

\* a * 2^n
Shl(a, n) ==
    LET q == n \div LimbBits
        r == n % LimbBits
    IN  Trim(Tuple(LAMBDA i : IF i <= q THEN 0
                              ELSE (Limb(a, i - q) % (2 ^ (LimbBits - r))) * (2 ^ r)
                                   + (Limb(a, i - q - 1) \div (2 ^ (LimbBits - r))),
                   IF a = <<>> THEN 0 ELSE Len(a) + q + 1))

\* a \div 2^n
Shr(a, n) ==
    LET q == n \div LimbBits
        r == n % LimbBits
    IN  Trim(Tuple(LAMBDA i : (Limb(a, i + q) \div (2 ^ r))
                              + (Limb(a, i + q + 1) % (2 ^ r)) * (2 ^ (LimbBits - r)),
                   IF Len(a) > q THEN Len(a) - q ELSE 0))

\* Bit i of a, bit 0 the lowest.
Bit(a, i) == (Limb(a, (i \div LimbBits) + 1) \div (2 ^ (i % LimbBits))) % 2

\* The number of zero bits below the lowest one bit of a > 0: the zero limbs
\* at the bottom, and the zero bits of the first limb that is not zero.
TrailingZeros(a) ==
    LET i == CHOOSE j \in 1 .. Len(a) : a[j] # 0 /\ \A l \in 1 .. (j - 1) : a[l] = 0
    IN  (i - 1) * LimbBits
        + CHOOSE k \in 0 .. (LimbBits - 1) : a[i] % (2 ^ (k + 1)) = 2 ^ k

\* The n lowest bits of a > 0 are all zero.
LowBitsZero(a, n) == TrailingZeros(a) >= n

\* 5^k, by squaring.
RECURSIVE Pow5(_)
Pow5(k) ==
    IF k <= 6 THEN <<5 ^ k>>
    ELSE With(Pow5(k \div 2), LAMBDA half :
         With(Mul(half, half), LAMBDA square :
         IF k % 2 = 0 THEN square ELSE MulSmall(square, 5)))

\* The number with the digits vs (their values, most significant first) in
\* base 10 or 16: up to three digits make one limb, more are the number of
\* the upper half times the base to the length of the lower half, plus the
\* number of the lower half.
RECURSIVE NatOfDigits(_, _)
NatOfDigits(vs, base) ==
    LET n == Len(vs)
        low == n \div 2
    IN  IF n <= 3 THEN Trim(<<Sum(LAMBDA i : vs[i] * (base ^ (n - i)), 1 .. n)>>)
        ELSE With(NatOfDigits(SubSeq(vs, 1, n - low), base), LAMBDA upper :
             With(NatOfDigits(SubSeq(vs, n - low + 1, n), base), LAMBDA lower :
             With(IF base = 16 THEN 1 ELSE Pow5(low), LAMBDA scale :
             With(IF base = 16 THEN Shl(upper, 4 * low) ELSE Mul(upper, scale), LAMBDA scaled :
             With(IF base = 16 THEN scaled ELSE Shl(scaled, low), LAMBDA shifted :
             Add(shifted, lower))))))

\* One limb of a quotient: r \div d and the remainder, for r < d * LimbBase
\* and a d whose top limb is at least LimbBase / 2.  The two top limbs of r
\* divided by the top limb of d exceed the quotient by at most two;
\* DivLimbFrom tries t and the numbers below it.
RECURSIVE DivLimbFrom(_, _, _)
DivLimbFrom(r, d, t) ==
    IF t <= 0 THEN [digit |-> 0, rem |-> r]
    ELSE With(MulSmall(d, t), LAMBDA dt :
         IF Geq(r, dt) THEN [digit |-> t, rem |-> Sub(r, dt)]
         ELSE DivLimbFrom(r, d, t - 1))

DivLimb(r, d) ==
    LET estimate == ((Limb(r, Len(d) + 1) * LimbBase) + Limb(r, Len(d))) \div d[Len(d)]
    IN  DivLimbFrom(r, d, IF estimate > LimbBase - 1 THEN LimbBase - 1 ELSE estimate)

\* The limbs k .. 0 of the quotient r \div d, lowest first, and the
\* remainder, for r < d * LimbBase^(k+1) and d as in DivLimb.
RECURSIVE DivLimbs(_, _, _)
DivLimbs(r, d, k) ==
    IF k < 0 THEN [quot |-> <<>>, rem |-> r]
    ELSE With(Shl(d, k * LimbBits), LAMBDA dk :
         With(DivLimb(r, dk), LAMBDA top :
         With(DivLimbs(top.rem, d, k - 1), LAMBDA rest :
         [quot |-> rest.quot \o <<top.digit>>, rem |-> rest.rem])))

\* The float64 format: 53 bits of mantissa, the lowest bit of the smallest
\* subnormal worth 2^-1074, every value below 2^1024.
MantBits == 53
MinBitExp == 0 - 1074
MaxBitExp == 1024

\* The float64 nearest to (q + f) * 2^x, for q > 0 and a fraction 0 <= f < 1
\* that is not zero exactly when sticky holds (q then has more than MantBits
\* bits): ties go to the even mantissa, a value that rounds to 2^1024 or
\* more is an infinity and a range error, one that rounds to zero is zero
\* and no error.
RoundFloat(negative, q, sticky, x) ==
    LET top == BitLen(q) + x
        lsb == IF top - MantBits < MinBitExp THEN MinBitExp ELSE top - MantBits
        d == lsb - x
        half == d > 0 /\ d <= BitLen(q) /\ Bit(q, d - 1) = 1
        below == sticky \/ (d > 1 /\ (d - 1 > BitLen(q) \/ ~LowBitsZero(q, d - 1)))
    IN  With(IF d <= 0 THEN Shl(q, 0 - d) ELSE IF d > BitLen(q) THEN <<>> ELSE Shr(q, d),
             LAMBDA kept :
        With(IF half /\ (below \/ Bit(kept, 0) = 1) THEN Add(kept, <<1>>) ELSE kept,
             LAMBDA mant :
        IF mant = <<>> THEN [ok |-> TRUE, value |-> Zero(negative)]
        ELSE IF BitLen(mant) + lsb > MaxBitExp
        THEN [ok |-> FALSE, value |-> Infinite(negative)]
        ELSE With(TrailingZeros(mant), LAMBDA zeros :
             [ok |-> TRUE,
              value |-> Finite(negative, Shr(mant, zeros), lsb + zeros)])))

\* The limbs of the quotient that DecimalFloat computes, and by how many
\* bits it makes the dividend longer than the divisor.
QuotLimbs == 5
QuotBits == 60

\* Beyond these numbers of digits before the point a decimal is too large
\* for a float64, or rounds to zero, whatever its digits.
MaxMagnitude == 310
MinMagnitude == 0 - 330

\* The float64 nearest to the decimal with the digits vs (their values) times
\* 10^exp10.  With a negative exp10 the number of the digits is divided by
\* 5^-exp10: the divisor is shifted to fill its top limb, and the dividend
\* (or, when it is the longer by more than QuotBits, the divisor again, by
\* whole limbs) so that the quotient has QuotBits bits or one more.
DecimalFloat(negative, vs, exp10) ==
    LET lead == {i \in 1 .. Len(vs) : vs[i] # 0}
        first == CHOOSE i \in lead : \A j \in lead : i <= j
        magnitude == Len(vs) - first + 1 + exp10
        fill(den) == (LimbBits - (BitLen(den) % LimbBits)) % LimbBits
        need(n, den) == BitLen(den) + fill(den) + QuotBits - BitLen(n)
        extra(n, den) == IF need(n, den) >= 0 THEN 0
                         ELSE ((0 - need(n, den) + LimbBits - 1) \div LimbBits) * LimbBits
    IN  IF lead = {} THEN [ok |-> TRUE, value |-> Zero(negative)]
        ELSE IF magnitude > MaxMagnitude THEN [ok |-> FALSE, value |-> Infinite(negative)]
        ELSE IF magnitude < MinMagnitude THEN [ok |-> TRUE, value |-> Zero(negative)]
        ELSE With(NatOfDigits(SubSeq(vs, first, Len(vs)), 10), LAMBDA n :
             With(Pow5(IF exp10 >= 0 THEN exp10 ELSE 0 - exp10), LAMBDA pow :
             IF exp10 >= 0
             THEN With(Mul(n, pow), LAMBDA q : RoundFloat(negative, q, FALSE, exp10))
             ELSE With(Shl(n, need(n, pow) + extra(n, pow)), LAMBDA num :
                  With(Shl(pow, fill(pow) + extra(n, pow)), LAMBDA den :
                  With(DivLimbs(num, den, QuotLimbs - 1), LAMBDA dv :
                  With(Trim(dv.quot), LAMBDA q :
                  RoundFloat(negative, q, dv.rem # <<>>,
                             exp10 + fill(pow) - need(n, pow))))))))

\* The float64 nearest to the number with the hexadecimal digits vs times
\* 2^exp2.
HexFloat(negative, vs, exp2) ==
    With(NatOfDigits(vs, 16), LAMBDA n :
         IF n = <<>> THEN [ok |-> TRUE, value |-> Zero(negative)]
         ELSE RoundFloat(negative, n, FALSE, exp2))

UpperLetters == <<"A", "B", "C", "D", "E", "F", "I", "N", "O", "P", "T", "X", "Y">>
LowerLetters == <<"a", "b", "c", "d", "e", "f", "i", "n", "o", "p", "t", "x", "y">>

\* The letters of the syntax, lower-cased.
Lower(c) ==
    IF \E i \in 1 .. Len(UpperLetters) : UpperLetters[i] = c
    THEN LowerLetters[CHOOSE i \in 1 .. Len(UpperLetters) : UpperLetters[i] = c]
    ELSE c

LowerAll(s) == Tuple(LAMBDA i : Lower(s[i]), Len(s))

HexLetters == <<"a", "b", "c", "d", "e", "f">>

IsHexLetter(c) == \E i \in 1 .. Len(HexLetters) : HexLetters[i] = Lower(c)

\* The value of a decimal or hexadecimal digit.
HexValue(c) ==
    IF IsDigit(c) THEN DigitValue(c)
    ELSE 9 + CHOOSE i \in 1 .. Len(HexLetters) : HexLetters[i] = Lower(c)

\* The exponent with the digits ds: the code adds digits (e = e*10 + digit)
\* as long as e < 10000, which stops it after the fifth digit that counts.
Exponent(ds) ==
    LET m == StripZeros(ds)
    IN  DecimalValue(SubSeq(m, 1, IF Len(m) > 5 THEN 5 ELSE Len(m)))

\* underscoreOK: every underscore of s stands between two digits, or
\* between a base prefix (0b, 0o, 0x) and a digit; a to f are digits after
\* 0x.
underscoreOK(s) ==
    LET t == IF Len(s) >= 1 /\ s[1] \in {"+", "-"} THEN Tail(s) ELSE s
        prefix == Len(t) >= 2 /\ t[1] = "0" /\ Lower(t[2]) \in {"b", "o", "x"}
        hex == prefix /\ Lower(t[2]) = "x"
        start == IF prefix THEN 3 ELSE 1
        digit(i) == IsDigit(t[i]) \/ (hex /\ IsHexLetter(t[i]))
    IN  \A i \in start .. Len(t) :
           t[i] = "_" =>
              /\ IF i = start THEN prefix ELSE digit(i - 1)
              /\ i < Len(t)
              /\ digit(i + 1)

\* special: s as an infinity or a NaN, an optional sign followed by "inf" or
\* "infinity", or "nan" unsigned, in any case; ok tells whether s is one.
special(s) ==
    LET signed == Len(s) > 0 /\ s[1] \in {"+", "-"}
        low == LowerAll(IF signed THEN Tail(s) ELSE s)
    IN  IF low \in {<<"i", "n", "f">>, <<"i", "n", "f", "i", "n", "i", "t", "y">>}
        THEN [ok |-> TRUE, value |-> Infinite(signed /\ s[1] = "-")]
        ELSE IF low = <<"n", "a", "n">> /\ ~signed THEN [ok |-> TRUE, value |-> NaN]
        ELSE [ok |-> FALSE, value |-> Zero(FALSE)]

\* readFloat, the digits: whether c is a digit of the mantissa.
IsMantissaDigit(c, hex) == IsDigit(c) \/ (hex /\ IsHexLetter(c))

\* readFloat, the digits: where the mantissa of body ends, at the first
\* character that is no digit, underscore or first point.
MantissaEnd(body, hex) ==
    LET stops == {i \in 1 .. Len(body) :
                    \/ ~(IsMantissaDigit(body[i], hex) \/ body[i] \in {"_", "."})
                    \/ body[i] = "." /\ \E j \in 1 .. (i - 1) : body[j] = "."}
    IN  IF stops = {} THEN Len(body) + 1
        ELSE CHOOSE i \in stops : \A j \in stops : i <= j

\* readFloat, the digits: the digits' values and how many follow the point.
ReadMantissa(mant, hex) ==
    LET points == {i \in 1 .. Len(mant) : mant[i] = "."}
        p == IF points = {} THEN Len(mant) + 1 ELSE CHOOSE i \in points : TRUE
        digits == SelectSeq(mant, LAMBDA c : IsMantissaDigit(c, hex))
    IN  [values |-> Tuple(LAMBDA i : HexValue(digits[i]), Len(digits)),
         frac |-> Len(SelectSeq(SubSeq(mant, p + 1, Len(mant)),
                                LAMBDA c : IsMantissaDigit(c, hex)))]

\* readFloat, the exponent: rest is what follows the mantissa.  An exponent
\* is e (p after 0x), an optional sign, a digit, then digits and
\* underscores; a hexadecimal number must have one.
ReadExponent(rest, hex) ==
    LET hasExp == rest # <<>> /\ Lower(rest[1]) = (IF hex THEN "p" ELSE "e")
        expo == Tail(rest)
        expSigned == Len(expo) > 0 /\ expo[1] \in {"+", "-"}
        expBody == IF expSigned THEN Tail(expo) ELSE expo
        expAbs == Exponent(SelectSeq(expBody, IsDigit))
    IN  IF hasExp
        THEN [ok |-> /\ Len(expBody) > 0
                     /\ IsDigit(expBody[1])
                     /\ \A i \in 1 .. Len(expBody) :
                           IsDigit(expBody[i]) \/ expBody[i] = "_",
              exp |-> IF expSigned /\ expo[1] = "-" THEN 0 - expAbs ELSE expAbs]
        ELSE [ok |-> rest = <<>> /\ ~hex, exp |-> 0]

\* readFloat: s as a number, an optional sign, 0x for a hexadecimal number,
\* the mantissa and the exponent, with underscores only where underscoreOK
\* takes them; ok tells whether all of s is one.  The number is the digits'
\* value times 10 ^ exp, or times 2 ^ exp when hex; point digits stand before
\* the point.
readFloat(s) ==
    LET signed == Len(s) > 0 /\ s[1] \in {"+", "-"}
        u == IF signed THEN Tail(s) ELSE s
        hex == Len(u) > 2 /\ u[1] = "0" /\ Lower(u[2]) = "x"
    IN  With(IF hex THEN SubSeq(u, 3, Len(u)) ELSE u, LAMBDA body :
        With(MantissaEnd(body, hex), LAMBDA e :
        With(ReadMantissa(SubSeq(body, 1, e - 1), hex), LAMBDA m :
        With(ReadExponent(SubSeq(body, e, Len(body)), hex), LAMBDA x :
            [ok |-> /\ m.values # <<>>
                    /\ x.ok
                    /\ (\E i \in 1 .. Len(s) : s[i] = "_") => underscoreOK(s),
             negative |-> signed /\ s[1] = "-",
             hex |-> hex,
             values |-> m.values,
             point |-> Len(m.values) - m.frac,
             exp |-> x.exp - (IF hex THEN 4 ELSE 1) * m.frac]))))

\* The bits of a word of the machine.
WordBits == 64

\* The two words of x < 2^128: hi is x \div 2^64, lo is x % 2^64.
Words(x) ==
    With(Shr(x, WordBits), LAMBDA hi : [hi |-> hi, lo |-> Sub(x, Shl(hi, WordBits))])

\* x & 0x1FF, for a word x
Low9(x) == Limb(x, 1) % 512

\* x + y does not fit a word (in the code, x + y < y).
Wraps(x, y) == BitLen(Add(x, y)) > WordBits

\* 10^k
Pow10(k) == Shl(Pow5(k), k)

\* atof64exact: whether the float64 arithmetic is exact on the mantissa
\* (below 2^52) times 10^exp: exp is 0; or at most 15 + 22, and the
\* mantissa times the power above 10^22 is at most 10^15; or negative and at
\* least -22.  The one multiplication or division by a power of ten that
\* follows rounds to the nearest float64.
atof64exact(mantissa, exp) ==
    /\ BitLen(mantissa) <= 52
    /\ \/ exp = 0
       \/ /\ exp > 0
          /\ exp <= 15 + 22
          /\ Geq(Pow10(15), Mul(mantissa, Pow10(IF exp > 22 THEN exp - 22 ELSE 0)))
       \/ exp < 0 /\ exp >= 0 - 22

\* detailedPowersOfTen: the rows are the powers 10^-348 to 10^347, each the
\* first 128 bits of the power, rounded down.
detailedPowersOfTenMinExp10 == 0 - 348
detailedPowersOfTenMaxExp10 == 347
detailedPowersOfTen(exp10) ==
    With(Pow5(IF exp10 >= 0 THEN exp10 ELSE 0 - exp10), LAMBDA p :
    With(BitLen(p), LAMBDA len :
    With((LimbBits - (len % LimbBits)) % LimbBits, LAMBDA fill :
        IF exp10 >= 0
        THEN IF len <= 2 * WordBits THEN Shl(p, 2 * WordBits - len)
             ELSE Shr(p, len - 2 * WordBits)
        ELSE Trim(DivLimbs(Shl(<<1>>, len + 2 * WordBits - 1 + fill), Shl(p, fill),
                           (2 * WordBits) \div LimbBits).quot))))

\* eiselLemire64, the wider approximation: x is man times the upper word of
\* the power, in two words.  When the low nine bits of its upper word are
\* all one and man more would carry into them, the upper word of the product
\* with the lower word of the power is added; the algorithm gives up when
\* that does not settle it.
WiderApproximation(man, powLo, x) ==
    IF Low9(x.hi) = 511 /\ Wraps(x.lo, man)
    THEN With(Words(Mul(man, powLo)), LAMBDA y :
         With(Words(Add(Add(Shl(x.hi, WordBits), x.lo), y.hi)), LAMBDA merged :
            [ok |-> ~(/\ Low9(merged.hi) = 511
                      /\ Wraps(merged.lo, <<1>>)
                      /\ Wraps(y.lo, man)),
             x |-> merged]))
    ELSE [ok |-> TRUE, x |-> x]

\* eiselLemire64, from the product to the float64: the 54 bits at the top of
\* the upper word are rounded to 53 (half goes up); the algorithm gives up
\* when the bits below may hide a tie, or when the exponent is not one of a
\* normal float64.  mant is the mantissa with its leading bit, exp2 the
\* biased exponent.
FromProduct(x, exp2) ==
    With(Bit(x.hi, WordBits - 1), LAMBDA msb :
    With(Shr(x.hi, msb + 9), LAMBDA retMantissa :
    With(Shr(Add(retMantissa, IF Bit(retMantissa, 0) = 1 THEN <<1>> ELSE <<>>), 1),
         LAMBDA rounded :
    With(IF BitLen(rounded) > MantBits THEN 1 ELSE 0, LAMBDA carry :
    With(exp2 - (1 - msb) + carry, LAMBDA retExp2 :
        [ok |-> /\ ~(x.lo = <<>> /\ Low9(x.hi) = 0 /\ Limb(retMantissa, 1) % 4 = 1)
                /\ retExp2 >= 1
                /\ retExp2 < 2047,
         mant |-> Shr(rounded, carry),
         exp2 |-> retExp2])))))

\* eiselLemire64(man, exp10, neg): the float64 nearest to man * 10^exp10 from
\* one or two multiplications of words, for a man that fits a word; ok
\* tells whether the algorithm vouches for it.
eiselLemire64(man, exp10) ==
    IF man = <<>> THEN [ok |-> TRUE, mant |-> <<>>, exp2 |-> 0]
    ELSE IF exp10 < detailedPowersOfTenMinExp10 \/ detailedPowersOfTenMaxExp10 < exp10
    THEN [ok |-> FALSE, mant |-> <<>>, exp2 |-> 0]
    ELSE With(WordBits - BitLen(man), LAMBDA clz :
         With(Shl(man, clz), LAMBDA norm :
         With(Words(detailedPowersOfTen(exp10)), LAMBDA pow :
         With(WiderApproximation(norm, pow.lo, Words(Mul(norm, pow.hi))), LAMBDA wide :
            IF ~wide.ok THEN [ok |-> FALSE, mant |-> <<>>, exp2 |-> 0]
            ELSE FromProduct(wide.x, ((217706 * exp10) \div 65536) + 64 + 1023 - clz)))))

\* The float64 with the bits eiselLemire64 made.
FloatOfBits(negative, f) ==
    IF f.mant = <<>> THEN Zero(negative)
    ELSE With(TrailingZeros(f.mant), LAMBDA zeros :
         Finite(negative, Shr(f.mant, zeros), f.exp2 - 1023 - 52 + zeros))

\* readFloat keeps the first 19 significant digits as the mantissa; the
\* decimal of the slow path (decimal.set) keeps the first 800 and, when it
\* has dropped digits, puts the point after the digits kept.
MaxMantDigits == 19
DecimalDigits == 800

\* The decimal of the slow path, as digits vs times 10^exp: of the digits sig
\* (from the first that is not zero, dp of them before the point) the first
\* 800, then a 1 when a digit other than 0 was dropped; the point is at most
\* 800 digits in, and the exponent written moves it by exp10.
decimalSet(sig, dp, exp10) ==
    LET nd == IF Len(sig) > DecimalDigits THEN DecimalDigits ELSE Len(sig)
        trunc == \E i \in (nd + 1) .. Len(sig) : sig[i] # 0
        point == (IF dp > DecimalDigits THEN DecimalDigits ELSE dp) + exp10
    IN  [vs |-> SubSeq(sig, 1, nd) \o (IF trunc THEN <<1>> ELSE <<>>),
         exp |-> point - nd - (IF trunc THEN 1 ELSE 0)]

\* atof64, the fast paths: the bits that eiselLemire64 makes of the mantissa
\* and, when digits were dropped (trunc), also of the mantissa and one; ok
\* tells whether it vouches for them and they agree.
eiselLemireBits(mantissa, exp, trunc) ==
    With(Tuple(LAMBDA i : eiselLemire64(IF i = 1 THEN mantissa ELSE Add(mantissa, <<1>>),
                                        exp),
               IF trunc THEN 2 ELSE 1),
         LAMBDA fs : [fs[1] EXCEPT !.ok = \A i \in 1 .. Len(fs) : fs[i].ok /\ fs[i] = fs[1]])

\* atof64 on the decimal that readFloat read: sig are the digits from the
\* first that is not zero, dp of them stand before the point (dp <= 0: the
\* point and -dp zeros stand before them), exp10 is the exponent written.
\* The mantissa is the first 19 digits.  When atof64exact takes it, the value
\* is the float64 nearest to the mantissa times 10^exp; or else it is the
\* one eiselLemire64 vouches for; or else the float64 nearest to the decimal
\* of the slow path.
atof64(negative, sig, dp, exp10) ==
    LET ndMant == IF Len(sig) > MaxMantDigits THEN MaxMantDigits ELSE Len(sig)
        trunc == \E i \in (ndMant + 1) .. Len(sig) : sig[i] # 0
        exp == dp + exp10 - ndMant
    IN  With(NatOfDigits(SubSeq(sig, 1, ndMant), 10), LAMBDA mantissa :
        With(~trunc /\ atof64exact(mantissa, exp), LAMBDA exact :
        With(IF exact THEN [ok |-> FALSE] ELSE eiselLemireBits(mantissa, exp, trunc),
             LAMBDA f :
        IF f.ok THEN [ok |-> TRUE, value |-> FloatOfBits(negative, f)]
        ELSE With(IF exact THEN [vs |-> SubSeq(sig, 1, ndMant), exp |-> exp]
                  ELSE decimalSet(sig, dp, exp10),
                  LAMBDA d : DecimalFloat(negative, d.vs, d.exp)))))

\* The decimal that readFloat read, given to atof64.
DecimalOf(r) ==
    LET lead == {i \in 1 .. Len(r.values) : r.values[i] # 0}
        first == CHOOSE i \in lead : \A j \in lead : i <= j
    IN  IF lead = {} THEN [ok |-> TRUE, value |-> Zero(r.negative)]
        ELSE atof64(r.negative, SubSeq(r.values, first, Len(r.values)),
                    r.point - (first - 1), r.exp + Len(r.values) - r.point)

\* strconv.ParseFloat(s, 64): the value and whether err is nil.  The strings
\* it takes are an optional sign followed by "inf", "infinity" or "nan"
\* (unsigned) in any case, or by a decimal number (digits with at most one
\* point, an optional exponent e) or a hexadecimal one (0x, hexadecimal
\* digits with at most one point, an exponent of two p), with underscores
\* between digits.  A syntax error gives 0 and an error; a number too large
\* for a float64 gives an infinity and a range error; any other number
\* gives the nearest float64 and no error, unless the decimal path dropped
\* digits before the point.
ParseHits(s) ==
    With(special(s), LAMBDA inf :
        IF inf.ok THEN inf
        ELSE With(readFloat(s), LAMBDA r :
            IF ~r.ok THEN [ok |-> FALSE, value |-> Zero(FALSE)]
            ELSE IF r.hex THEN HexFloat(r.negative, r.values, r.exp)
            ELSE DecimalOf(r)))

TimeFieldName == <<"t", "i", "m", "e">>
HitsSuffix == <<" ", "h", "i", "t", "s">>

\* The rows of the answers the model draws from.
GoodRow == [StartDateTime |-> <<"1", "7", "0", "0", "0", "0", "0", "0", "0", "0", "0", "0", "0">>,
            Hits |-> <<"4", "2", ".", "5">>]
NARow == [StartDateTime |-> <<"1", "7", "0", "0", "0", "0", "0", "3", "0", "0", "0", "0", "0">>,
          Hits |-> <<"N", "/", "A">>]
BadTimeRow == [StartDateTime |-> <<"1", "7", "x">>, Hits |-> <<"1">>]
OverflowRow == [StartDateTime |-> <<"1", "7", "0", "0", "0", "0", "0", "6", "0", "0", "0", "0", "0">>,
                Hits |-> <<"1", "e", "9", "9", "9">>]

\* A row whose startdatetime was not a JSON string: Decode reports the type
\* error, leaves the field empty and goes on.
EmptyTimeRow == [StartDateTime |-> <<>>, Hits |-> <<"1">>]

\* Bodies of a 200 answer that decode: no rows; rows newest first, one with
\* the "N/A" sentinel; a row whose time does not parse, after a good row;
\* rows in time order, one with hits too large for a float64.
DataSamples ==
    {<<>>, <<NARow, GoodRow>>, <<GoodRow, BadTimeRow>>, <<GoodRow, OverflowRow>>}

\* What Decode leaves in rspDto.Data when it returns an error: nothing (a
\* body that is not JSON); every row (a type error outside the rows); the
\* rows with a field left empty (a type error in a row, here the first).
PartialDataSamples == {<<>>, <<NARow, GoodRow>>, <<EmptyTimeRow, GoodRow>>}

\* The hits of the sample rows with what ParseHits makes of them, computed
\* once.
SampleHits ==
    UNION {{data[i].Hits : i \in 1 .. Len(data)} : data \in DataSamples \cup PartialDataSamples}
ParsedSamples == {<<s, ParseHits(s)>> : s \in SampleHits}

\* ParseHits(s), looked up when s is the hits of a sample row.
ParsedHits(s) ==
    IF s \in SampleHits THEN (CHOOSE p \in ParsedSamples : p[1] = s)[2]
    ELSE ParseHits(s)

\* The rows whose startdatetime only the first row's check looks at.
BadTimeRows_FirstRowOnly(Data) ==
    {i \in 1 .. Len(Data) : i = 1 /\ ~ParseUnixMs(Data[i].StartDateTime).ok}

\* The rows at which strconv.ParseInt returns an error.
BadTimeRows(Data) ==
    {i \in 1 .. Len(Data) : ~ParseUnixMs(Data[i].StartDateTime).ok}

\* sampletime[i] = time.Unix(unixms/1000, 0)
sampletime(Data) ==
    [i \in 1 .. Len(Data) |-> ParseUnixMs(Data[i].StartDateTime).seconds]

\* The values with the rows left out whose hits do not parse.
hitspersec_SkipUnparsed(Data) ==
    LET parsed == SelectSeq(Data, LAMBDA datum : ParsedHits(datum.Hits).ok) IN
    [i \in 1 .. Len(parsed) |-> ParsedHits(parsed[i].Hits).value]

\* hitspersec[i], _ = strconv.ParseFloat(datum.Hits, 64)
hitspersec(Data) ==
    [i \in 1 .. Len(Data) |-> ParsedHits(Data[i].Hits).value]

\* The default name made from the parsed zone list's text.
metricName_Stripped(dqj) ==
    IF Len(dqj.MetricName) = 0 THEN RemoveSpaces(dqj.ZoneNames) \o HitsSuffix
    ELSE dqj.MetricName

\* The name of the value field.
metricName(dqj) ==
    IF Len(dqj.MetricName) = 0 THEN dqj.ZoneNames \o HitsSuffix
    ELSE dqj.MetricName

\* The loop recording the parse error and going on to the frame instead of
\* returning.
MapResponse_FrameWithError(q, Data) ==
    LET frame == [Name |-> "response",
                  Fields |-> <<[Name |-> TimeFieldName, Values |-> sampletime(Data)],
                               [Name |-> metricName(q), Values |-> hitspersec(Data)]>>]
    IN  [Error |-> IF BadTimeRows(Data) # {} THEN ErrParseInt ELSE NoErr,
         Frames |-> <<frame>>]

\* The loop over the rows and the frame of query(): the first row whose
\* startdatetime does not parse ends the query with that error.
MapResponse(q, Data) ==
    LET frame == [Name |-> "response",
                  Fields |-> <<[Name |-> TimeFieldName, Values |-> sampletime(Data)],
                               [Name |-> metricName(q), Values |-> hitspersec(Data)]>>]
    IN  IF BadTimeRows(Data) # {} THEN [Error |-> ErrParseInt, Frames |-> <<>>]
        ELSE [Error |-> NoErr, Frames |-> <<frame>>]

---------------------------------------------------------------------------
(* QueryData                                                               *)

\* Where QueryData goes after json.Unmarshal of the settings.
AfterSettings(decodes) == IF decodes THEN "loop" ELSE "returned"

\* Where query() goes after its checks, this variant whatever they found.
AfterValidate_Continue(err) == "fetch"

\* Where query() goes after its checks: back to the loop of QueryData with
\* the error, or on to gtmOpenApiQuery.
AfterValidate(err) == IF err # NoErr THEN "loop" ELSE "fetch"

\* The stages of a query, in the order query() goes through them.
StageOrder == <<"Validate", "BuildRequest", "Fetch", "MapResponse", "Emit">>

\* response.Responses[q.RefID] = res
StoreResponse(rs, refID, res) ==
    [r \in DOMAIN rs \cup {refID} |-> IF r = refID THEN res ELSE rs[r]]

\* The longest request and how often the clock moves during one.
MaxBatch == 2
MaxTicks == 1
TickStep == FiveMinutes \div 2

RefIDs == {"A", "B"}

Horizon0 == NowBase - NINETY_DAYS

\* Time ranges with the panel's maxDataPoints: recent; wholly before the
\* retention horizon; ending a minute before the horizon; across the
\* horizon, with a panel so small that the interval is HOUR.
WindowSamples ==
    {[From |-> NowBase - 6 * Hour, To |-> NowBase, MaxDataPoints |-> 1000],
     [From |-> Horizon0 - 3 * Hour, To |-> Horizon0 - 2 * Hour, MaxDataPoints |-> 1000],
     [From |-> Horizon0 - 2 * Hour, To |-> Horizon0 - Minute, MaxDataPoints |-> 1000],
     [From |-> Horizon0 - Hour, To |-> Horizon0 + Hour, MaxDataPoints |-> 0]}

ZoneSamples == {<<>>, <<Comma>>, <<"a">>, <<"a", Comma, Space, "b">>}

RecentWindow == [From |-> NowBase - 6 * Hour, To |-> NowBase, MaxDataPoints |-> 1000]

BeforeHorizonWindow ==
    [From |-> Horizon0 - 3 * Hour, To |-> Horizon0 - 2 * Hour, MaxDataPoints |-> 1000]

\* The queries a request may hold: one zone with every window, every zone
\* string with a recent window and with one before the retention horizon
\* (no metric name); a query with a metric name; a query whose JSON does
\* not decode (it has no fields to speak of).
QuerySamples ==
    {[RefID |-> r, jsonOK |-> TRUE, ZoneNames |-> <<"a">>, MetricName |-> <<>>,
      From |-> w.From, To |-> w.To, MaxDataPoints |-> w.MaxDataPoints] :
        r \in RefIDs, w \in WindowSamples}
    \cup
    {[RefID |-> r, jsonOK |-> TRUE, ZoneNames |-> z, MetricName |-> <<>>,
      From |-> w.From, To |-> w.To, MaxDataPoints |-> w.MaxDataPoints] :
        r \in RefIDs, z \in ZoneSamples, w \in {RecentWindow, BeforeHorizonWindow}}
    \cup
    {[RefID |-> r, jsonOK |-> TRUE, ZoneNames |-> <<"a">>, MetricName |-> <<"m">>,
      From |-> RecentWindow.From, To |-> RecentWindow.To,
      MaxDataPoints |-> RecentWindow.MaxDataPoints] : r \in RefIDs}
    \cup
    {[RefID |-> r, jsonOK |-> FALSE, ZoneNames |-> <<>>, MetricName |-> <<>>,
      From |-> RecentWindow.From, To |-> RecentWindow.To, MaxDataPoints |-> 0] :
        r \in RefIDs}

UnauthorizedTitle == "Some of the requested objects are unauthorized: [a]"

\* No answer: the request was never sent.
NoReply == [kind |-> "none", status |-> 0,
            body |-> [decodes |-> FALSE, errors |-> <<>>, data |-> <<>>]]

\* What client.Do may get back.
ReplySamples ==
    {[kind |-> "transport", status |-> 0,
      body |-> [decodes |-> FALSE, errors |-> <<>>, data |-> <<>>]]}
    \cup
    {[kind |-> "response", status |-> 200,
      body |-> [decodes |-> TRUE, errors |-> <<>>, data |-> d]] : d \in DataSamples}
    \cup
    {[kind |-> "response", status |-> 200,
      body |-> [decodes |-> FALSE, errors |-> <<>>, data |-> d]] :
        d \in PartialDataSamples}
    \cup
    {[kind |-> "response", status |-> 204,
      body |-> [decodes |-> FALSE, errors |-> <<>>, data |-> <<>>]],
     [kind |-> "response", status |-> 201,
      body |-> [decodes |-> TRUE, errors |-> <<>>, data |-> <<NARow, GoodRow>>]]}
    \cup
    {[kind |-> "response", status |-> 403,
      body |-> [decodes |-> TRUE, errors |-> <<UnauthorizedTitle>>, data |-> <<>>]],
     [kind |-> "response", status |-> 500,
      body |-> [decodes |-> FALSE, errors |-> <<>>, data |-> <<>>]],
     [kind |-> "response", status |-> 500,
      body |-> [decodes |-> TRUE, errors |-> <<>>, data |-> <<>>]]}

\* No sampled window ends before it starts, so the conversion of a negative
\* hour count never happens here and one build stands for both.
Init ==
    /\ arch \in {"wrap"}
    /\ now = NowBase
    /\ call = None
    /\ ret = None
    /\ ret2 = None
    /\ pc = "called"
    /\ settings \in [decodes : BOOLEAN, hostOK : BOOLEAN]
    /\ user \in BOOLEAN
    /\ nQueries \in 0 .. MaxBatch
    /\ idx = 0
    /\ cur = None
    /\ responses = <<>>
    /\ retErr = NoErr
    /\ netCalls = 0
    /\ refs = <<>>
    /\ ctx = "live"

pureVars == <<call, ret, ret2>>

\* QueryData up to its loop: the login and the role of the request's user
\* are logged, which panics on a request without a user (a nil pointer),
\* and the settings are decoded.
QueryDataBegin ==
    /\ pc = "called"
    /\ pc' = IF ~user THEN "panicked" ELSE AfterSettings(settings.decodes)
    /\ retErr' = IF user /\ ~settings.decodes THEN ErrSettingsJson ELSE NoErr
    /\ UNCHANGED <<arch, now, pureVars, settings, user, nQueries, idx, cur, responses,
                   netCalls, refs, ctx>>

\* The loop takes the next query q of the request and query() validates
\* it; a query that fails validation returns at once and its response is
\* stored.
QueryValidate(q) ==
    /\ pc = "loop"
    /\ idx < nQueries
    /\ LET v == Validate(q, now, arch)
           res == [Error |-> v.err, Frames |-> <<>>]
       IN  /\ cur' = [q |-> q, clock |-> now, netAtStart |-> netCalls,
                      v |-> v, invoked |-> FALSE, done |-> v.err # NoErr,
                      Data |-> <<>>, res |-> res, reply |-> NoReply,
                      cancelledInFlight |-> FALSE, stages |-> <<"Validate">>]
           /\ pc' = AfterValidate(v.err)
           /\ responses' = IF v.err # NoErr
                           THEN StoreResponse(responses, q.RefID, res)
                           ELSE responses
    /\ idx' = idx + 1
    /\ refs' = Append(refs, q.RefID)
    /\ UNCHANGED <<arch, now, pureVars, settings, user, nQueries, retErr, netCalls, ctx>>

\* query() calls gtmOpenApiQuery, which builds the request and hands it to
\* client.Do, where it waits for the endpoint; when client.NewRequest fails
\* the query ends at once with that error.
QuerySend ==
    /\ pc = "fetch"
    /\ LET r == gtmOpenApiQuery(cur.v.zoneNamesList, cur.v.from, cur.v.to,
                                cur.v.interval, settings.hostOK, NoReply)
           res == [Error |-> r.err, Frames |-> <<>>]
       IN  IF settings.hostOK
           THEN /\ pc' = "inflight"
                /\ netCalls' = netCalls + 1
                /\ cur' = [cur EXCEPT !.invoked = TRUE,
                                      !.stages = @ \o <<"BuildRequest", "Fetch">>]
                /\ UNCHANGED responses
           ELSE /\ pc' = "loop"
                /\ netCalls' = cur.netAtStart + r.sent
                /\ cur' = [cur EXCEPT !.invoked = TRUE, !.done = TRUE, !.res = res,
                                      !.stages = @ \o <<"BuildRequest">>]
                /\ responses' = StoreResponse(responses, cur.q.RefID, res)
    /\ UNCHANGED <<arch, now, pureVars, settings, user, nQueries, idx, retErr, refs, ctx>>

\* client.Do returns with reply and gtmOpenApiQuery with its result.
QueryFetch(reply) ==
    /\ pc = "inflight"
    /\ LET r == gtmOpenApiQuery(cur.v.zoneNamesList, cur.v.from, cur.v.to,
                                cur.v.interval, settings.hostOK, reply)
           res == [Error |-> r.err, Frames |-> <<>>]
       IN  /\ netCalls' = cur.netAtStart + r.sent
           /\ cur' = [cur EXCEPT !.done = r.panic \/ r.err # NoErr,
                                 !.Data = r.Data, !.res = res, !.reply = reply]
           /\ pc' = IF r.panic THEN "panicked"
                    ELSE IF r.err # NoErr THEN "loop" ELSE "map"
           /\ responses' = IF ~r.panic /\ r.err # NoErr
                           THEN StoreResponse(responses, cur.q.RefID, res)
                           ELSE responses
    /\ UNCHANGED <<arch, now, pureVars, settings, user, nQueries, idx, retErr, refs, ctx>>

\* query() maps the rows into a frame and returns; its response is stored.
QueryMap ==
    /\ pc = "map"
    /\ \E res \in {MapResponse(cur.q, cur.Data)} :
       /\ cur' = [cur EXCEPT !.done = TRUE, !.res = res,
                             !.stages = @ \o (IF res.Error = NoErr
                                              THEN <<"MapResponse", "Emit">>
                                              ELSE <<"MapResponse">>)]
       /\ responses' = StoreResponse(responses, cur.q.RefID, res)
    /\ pc' = "loop"
    /\ UNCHANGED <<arch, now, pureVars, settings, user, nQueries, idx, retErr, netCalls,
                   refs, ctx>>

\* QueryData returns the responses after the last query.
QueryDataReturn ==
    /\ pc = "loop"
    /\ idx = nQueries
    /\ pc' = "returned"
    /\ UNCHANGED <<arch, now, pureVars, settings, user, nQueries, idx, cur, responses,
                   retErr, netCalls, refs, ctx>>

\* The caller cancels the context of the request while a query's request,
\* or the health check's, is with the endpoint.  (The handler passes ctx to
\* query(), which never reads it, and CheckHealth passes it to nothing: a
\* cancellation at any other moment changes nothing either.)
Cancel ==
    /\ pc \in {"inflight", "healthInflight"}
    /\ ctx = "live"
    /\ ctx' = "cancelled"
    /\ cur' = IF pc = "inflight" THEN [cur EXCEPT !.cancelledInFlight = TRUE] ELSE cur
    /\ UNCHANGED <<arch, now, pureVars, pc, settings, user, nQueries, idx, responses,
                   retErr, netCalls, refs>>

\* Time passes while the request is handled.  The clock is read once per
\* query, in adjustQueryTimes, so it is enough that it moves between two
\* queries; the health check reads it once, before its request, and then
\* waits for the answer.
Tick ==
    /\ pc \in {"called", "loop", "health", "healthInflight"}
    /\ now < NowBase + MaxTicks * TickStep
    /\ now' = now + TickStep
    /\ UNCHANGED <<arch, pureVars, pc, settings, user, nQueries, idx, cur, responses,
                   retErr, netCalls, refs, ctx>>

Next ==
    \/ QueryDataBegin
    \/ \E q \in QuerySamples : QueryValidate(q)
    \/ QuerySend
    \/ \E reply \in ReplySamples : QueryFetch(reply)
    \/ QueryMap
    \/ QueryDataReturn
    \/ Cancel
    \/ Tick

Spec == Init /\ [][Next]_vars

---------------------------------------------------------------------------
(* What the claims speak of.                                               *)

\* The bucket of a supported interval.
BucketOf(interval) == IF interval = HOUR THEN Hour ELSE FiveMinutes

\* m is the boundary of bucket d nearest to t, the upper one when t is
\* halfway between two.
IsNearestBoundary(m, t, d) ==
    /\ m % d = 0
    /\ 2 * (m - t) <= d
    /\ 2 * (t - m) < d

\* The boundary nearest to t, picked by that property among the two
\* boundaries around t.
NearestBoundary(t, d) ==
    CHOOSE m \in {(t \div d) * d, (t \div d) * d + d} : IsNearestBoundary(m, t, d)

Range(f) == {f[i] : i \in DOMAIN f}

\* The requests client.Do has sent for the current query.
Sent == netCalls - cur.netAtStart

\* QueryData is over: it returned, or a panic left it.
Finished == pc \in {"returned", "panicked"}

\* C1: when the settings decode, a request whose queries have distinct
\* RefIDs ends with QueryData returning one response per query, each query's
\* outcome (its failure, at any stage) in its own slot, every query taken up.
C1_ErrorIsolation ==
    (Finished /\ settings.decodes /\ Cardinality(Range(refs)) = Len(refs))
    => /\ pc = "returned"
       /\ retErr = NoErr
       /\ Len(refs) = nQueries
       /\ DOMAIN responses = Range(refs)
       /\ Cardinality(DOMAIN responses) = nQueries
       /\ (cur # None => responses[cur.q.RefID] = cur.res)

\* C2: when the settings do not decode, QueryData returns that error and
\* nothing else happens: no query is taken up or validated, no request is
\* sent, and the response holds no slot.
C2_ConfigurationErrorIsBatchFatal ==
    (pc # "pure" /\ ~settings.decodes)
    => /\ pc \in {"called", "returned"}
       /\ idx = 0
       /\ refs = <<>>
       /\ cur = None
       /\ netCalls = 0
       /\ responses = <<>>
       /\ (pc = "returned" => retErr = ErrSettingsJson)

\* No zone is left in s once spaces and commas are set aside.
NoZoneIn(s) == \A i \in 1 .. Len(s) : s[i] \in {Space, Comma}

\* gtmOpenApiQuery is only ever called with at least one zone, none empty.
ZoneListPassedIsSound ==
    (cur # None /\ cur.invoked)
    => /\ Len(cur.v.zoneNamesList) >= 1
       /\ \A k \in 1 .. Len(cur.v.zoneNamesList) : Len(cur.v.zoneNamesList[k]) > 0

\* The rounded end of q's window is before the rounded retention horizon.
WindowBeforeHorizon(q, clock, interval) ==
    NearestBoundary(q.To, BucketOf(interval))
        < NearestBoundary(clock - NINETY_DAYS, BucketOf(interval))

\* C3 as stated: gtmOpenApiQuery gets a list of at least one zone, every
\* element non-empty; a query whose zone string is empty or yields no zones
\* fails with a no-zones error and never reaches the network call.
C3_NoZonesIsNoZonesError ==
    /\ ZoneListPassedIsSound
    /\ (cur # None /\ cur.q.jsonOK /\ NoZoneIn(cur.q.ZoneNames))
       => /\ cur.done
          /\ cur.res.Error \in {ErrEnterZoneNames, ErrEnterOneZoneName}
          /\ cur.res.Frames = <<>>
          /\ ~cur.invoked
          /\ Sent = 0

\* C3 amended: gtmOpenApiQuery gets a list of at least one zone, every
\* element non-empty; a query whose zone string is empty fails with "Enter
\* zone names", one whose non-empty zone string yields no zones fails with
\* the window error when its window is before the retention horizon (that
\* check comes first) and with "Enter one zone name" otherwise; neither
\* reaches the network call.
C3_NoZonesNeverReachesTheNetwork ==
    /\ ZoneListPassedIsSound
    /\ (cur # None /\ cur.q.jsonOK /\ NoZoneIn(cur.q.ZoneNames))
       => /\ cur.done
          /\ cur.res.Error =
                (IF cur.q.ZoneNames = <<>> THEN ErrEnterZoneNames
                 ELSE IF WindowBeforeHorizon(cur.q, cur.clock, cur.v.interval)
                 THEN ErrBeforeData
                 ELSE ErrEnterOneZoneName)
          /\ cur.res.Frames = <<>>
          /\ ~cur.invoked
          /\ Sent = 0

\* C3's case: a zone string of one comma has been through query() with a
\* window that passes: it failed on the empty list, nothing was sent.
C3_Witness ==
    /\ cur # None
    /\ cur.q.ZoneNames = <<Comma>>
    /\ cur.res.Error = ErrEnterOneZoneName
    /\ ~cur.invoked
    /\ pc = "loop"

\* C4 as stated: a query sends exactly one request when its validation
\* succeeds and none when it fails; no error causes a second request.
C4_ExactlyOneRequest ==
    cur # None
    => /\ Sent <= 1
       /\ (cur.done => Sent = IF cur.v.err = NoErr THEN 1 ELSE 0)

\* C4 amended: a query sends at most one request: exactly one when its
\* validation succeeds and client.NewRequest can build the request from the
\* configured host, none when validation fails or the request cannot be
\* built; a transport error or a non-success status never causes a second.
C4_AtMostOneRequest ==
    cur # None
    => /\ Sent <= 1
       /\ (~cur.invoked => Sent = 0)
       /\ (cur.done => Sent = IF cur.v.err = NoErr /\ settings.hostOK
                             THEN 1 ELSE 0)

\* C4's case: a query's only request met a transport error and the query
\* ended with it.
C4_Witness ==
    /\ cur # None
    /\ cur.done
    /\ cur.res.Error = ErrTransport
    /\ Sent = 1
    /\ pc = "loop"

\* The current query got as far as the window check.
ReachedWindowCheck == cur # None /\ cur.q.jsonOK /\ cur.q.ZoneNames # <<>>

\* C8 as stated: a query whose to is earlier than (now - 90 days) rounded to
\* the interval boundary fails with "Time range is before available data"
\* and sends no request.
C8_ToBeforeHorizonFails ==
    (ReachedWindowCheck
        /\ cur.q.To < NearestBoundary(cur.clock - NINETY_DAYS, BucketOf(cur.v.interval)))
    => /\ cur.done
       /\ cur.res.Error = ErrBeforeData
       /\ ~cur.invoked
       /\ Sent = 0

\* C8 amended: a query whose to, rounded to the interval boundary, is
\* earlier than (now - 90 days) rounded to the interval boundary fails with
\* "Time range is before available data" and sends no request.
C8_RoundedToBeforeHorizonFails ==
    (ReachedWindowCheck /\ WindowBeforeHorizon(cur.q, cur.clock, cur.v.interval))
    => /\ cur.done
       /\ cur.res.Error = ErrBeforeData
       /\ cur.res.Frames = <<>>
       /\ ~cur.invoked
       /\ Sent = 0

\* C8's case: a window that ends a minute before the horizon, and so rounds
\* onto it, has failed all the same, the clock (and the horizon) having
\* moved on before it was read.
C8_Witness ==
    /\ ReachedWindowCheck
    /\ cur.q.To = Horizon0 - Minute
    /\ cur.clock > NowBase
    /\ cur.res.Error = ErrBeforeData
    /\ Sent = 0

---------------------------------------------------------------------------
(* The pure functions on their own: Init draws the arguments, one action   *)
(* makes the call.                                                         *)

\* The handler's variables while only a pure function is exercised.
HandlerIdle ==
    /\ pc = "pure"
    /\ settings = None
    /\ user = FALSE
    /\ nQueries = 0
    /\ idx = 0
    /\ cur = None
    /\ responses = <<>>
    /\ retErr = NoErr
    /\ netCalls = 0
    /\ refs = <<>>
    /\ ctx = "live"

handlerVars == <<pc, settings, user, nQueries, idx, cur, responses, retErr, netCalls,
                 refs, ctx>>

\* How far the sampled hour counts and maxDataPoints reach around 0 and
\* around FOUR_WEEKS.
Slack == 2

HourSamples == (0 .. Slack) \cup ((FOUR_WEEKS - Slack) .. (FOUR_WEEKS + Slack))

\* Parts of an hour, in seconds.
PartSamples == {0, 1, Hour \div 2, Hour - 1}

SpanSamples ==
    {sign * (h * Hour + s) : sign \in {1, -1}, h \in HourSamples, s \in PartSamples}

MaxDataPointsSamples == HourSamples \cup {1000}

InitInterval ==
    /\ arch \in Archs
    /\ now = NowBase
    /\ call \in [op : {"calculateInterval"},
                 from : {NowBase},
                 span : SpanSamples,
                 maxDataPoints : MaxDataPointsSamples]
    /\ ret = None
    /\ ret2 = None
    /\ HandlerIdle

CallCalculateInterval ==
    /\ pc = "pure"
    /\ call.op = "calculateInterval"
    /\ ret = None
    /\ ret' = [interval |-> calculateInterval(call.from, call.from + call.span,
                                               call.maxDataPoints, arch)]
    /\ UNCHANGED <<arch, now, call, ret2, handlerVars>>

NextInterval == CallCalculateInterval

SpecInterval == InitInterval /\ [][NextInterval]_vars

\* C5: for every time span (to - from) greater than 672 hours,
\* calculateInterval returns HOUR whatever maxDataPoints is.
C5_OverFourWeeksIsHour ==
    (call # None /\ call.op = "calculateInterval" /\ ret # None
        /\ call.span > FOUR_WEEKS * Hour)
    => ret.interval = HOUR

\* C6: for every span <= 672 hours, calculateInterval returns HOUR when the
\* span in whole hours is >= maxDataPoints (so always at maxDataPoints = 0)
\* and FIVE_MINUTES otherwise.
C6_WithinFourWeeks ==
    (call # None /\ call.op = "calculateInterval" /\ ret # None
        /\ call.span <= FOUR_WEEKS * Hour)
    => ret.interval =
             IF WholeHours(call.span) >= call.maxDataPoints
                  \/ call.maxDataPoints = 0
             THEN HOUR ELSE FIVE_MINUTES

---------------------------------------------------------------------------
(* adjustQueryTimes on its own.                                            *)

\* The sampled times lie on a grid of quarter buckets (so that halfway
\* values occur) around the clock's retention horizon, MaxGrid steps to
\* either side.
GridStep == FiveMinutes \div 4
MaxGrid == 26

AlignTimes == {NowBase - NINETY_DAYS + j * GridStep : j \in (0 - MaxGrid) .. MaxGrid}

\* Clock readings whose horizon is on a boundary, halfway between two
\* boundaries (of either bucket) and just past a boundary.
NowSamples == {NowBase, NowBase + 1, NowBase + FiveMinutes \div 2, NowBase + Hour \div 2}

\* adjustQueryTimes takes any Interval: it is called with the two the
\* plugin defines and with another, which its callers never pass.
InitAlign ==
    /\ arch \in {"wrap"}
    /\ now \in NowSamples
    /\ call \in [op : {"adjustQueryTimes"},
                 from : AlignTimes,
                 to : AlignTimes,
                 interval : {HOUR, FIVE_MINUTES, UNSUPPORTED}]
    /\ ret = None
    /\ ret2 = None
    /\ HandlerIdle

CallAdjustQueryTimes ==
    /\ pc = "pure"
    /\ call.op = "adjustQueryTimes"
    /\ ret = None
    /\ ret' = adjustQueryTimes(call.from, call.to, call.interval, now)
    /\ UNCHANGED <<arch, now, call, ret2, handlerVars>>

\* The aligned window is aligned again, the clock unchanged.
CallAdjustQueryTimesAgain ==
    /\ pc = "pure"
    /\ call.op = "adjustQueryTimes"
    /\ ret # None
    /\ ret.err = NoErr
    /\ ret2 = None
    /\ ret2' = adjustQueryTimes(ret.from, ret.to, call.interval, now)
    /\ UNCHANGED <<arch, now, call, ret, handlerVars>>

NextAlign == CallAdjustQueryTimes \/ CallAdjustQueryTimesAgain

SpecAlign == InitAlign /\ [][NextAlign]_vars

AlignSucceeded ==
    /\ call # None
    /\ call.op = "adjustQueryTimes"
    /\ call.interval \in {HOUR, FIVE_MINUTES}
    /\ ret # None
    /\ ret.err = NoErr

\* C7: when adjustQueryTimes succeeds for FIVE_MINUTES or HOUR, from and to
\* lie on bucket boundaries, from >= oldestAvailable <= to where
\* oldestAvailable is (now - 90 days) rounded to the nearest boundary, from
\* is the rounded input from unless that is before oldestAvailable (then it
\* is oldestAvailable), and to is the rounded input to.
C7_AlignedWindow ==
    AlignSucceeded =>
        LET d == BucketOf(call.interval)
            oldestAvailable == NearestBoundary(now - NINETY_DAYS, d)
            fromNearest == NearestBoundary(call.from, d)
        IN  /\ ret.from % d = 0
            /\ ret.to % d = 0
            /\ ret.from >= oldestAvailable
            /\ oldestAvailable <= ret.to
            /\ ret.from = (IF fromNearest < oldestAvailable
                           THEN oldestAvailable ELSE fromNearest)
            /\ ret.to = NearestBoundary(call.to, d)

\* C7's case: the window succeeded with from clamped to the horizon and to
\* moved by the rounding.
C7_Witness ==
    /\ AlignSucceeded
    /\ ret.from > call.from
    /\ ret.from = NearestBoundary(now - NINETY_DAYS, BucketOf(call.interval))
    /\ ret.from # NearestBoundary(call.from, BucketOf(call.interval))
    /\ ret.to # call.to

\* C9: for a fixed clock and interval, aligning a window that
\* adjustQueryTimes returned succeeds and returns that window unchanged.
C9_Idempotent ==
    (call # None /\ call.op = "adjustQueryTimes" /\ ret # None /\ ret.err = NoErr)
    => /\ adjustQueryTimes(ret.from, ret.to, call.interval, now).err = NoErr
       /\ (ret2 # None => ret2 = [from |-> ret.from, to |-> ret.to, err |-> NoErr])

\* C9's case: a window that the first alignment changed (both ends) has
\* been aligned a second time.
C9_Witness ==
    /\ call # None
    /\ call.op = "adjustQueryTimes"
    /\ ret2 # None
    /\ ret.from # call.from
    /\ ret.to # call.to

---------------------------------------------------------------------------
(* zonesListFromZones on its own.                                          *)

\* The longest sampled zone string.
MaxZoneLen == 4

ZoneChars == {"a", "b", Space, Tab, Comma}

RECURSIVE StringsUpTo(_, _)
StringsUpTo(chars, n) ==
    IF n = 0 THEN {<<>>}
    ELSE LET shorter == StringsUpTo(chars, n - 1) IN
         shorter \cup {<<c>> \o t : c \in chars, t \in {u \in shorter : Len(u) = n - 1}}

\* " a, b ,,c "
ExampleZones == <<" ", "a", ",", " ", "b", " ", ",", ",", "c", " ">>

ZoneInputs == StringsUpTo(ZoneChars, MaxZoneLen) \cup {ExampleZones}

InitZones ==
    /\ arch \in {"wrap"}
    /\ now = NowBase
    /\ call \in [op : {"zonesListFromZones"}, zoneNames : ZoneInputs]
    /\ ret = None
    /\ ret2 = None
    /\ HandlerIdle

CallZonesListFromZones ==
    /\ pc = "pure"
    /\ call.op = "zonesListFromZones"
    /\ ret = None
    /\ ret' = [zones |-> zonesListFromZones(call.zoneNames)]
    /\ UNCHANGED <<arch, now, call, ret2, handlerVars>>

NextZones == CallZonesListFromZones

SpecZones == InitZones /\ [][NextZones]_vars

ZonesReturned ==
    /\ call # None
    /\ call.op = "zonesListFromZones"
    /\ ret # None

\* s without the characters of drop, the others in their order.
Without(s, drop) == SelectSeq(s, LAMBDA c : c \notin drop)

\* The positions of s where a segment starts: a character other than a
\* comma that is first or follows a comma.
SegmentStarts(s) ==
    {i \in 1 .. Len(s) : s[i] # Comma /\ (i = 1 \/ s[i - 1] = Comma)}

\* The segment of s that starts at position i: up to the next comma.
SegmentAt(s, i) ==
    LET stops == {j \in i .. Len(s) : s[j] = Comma}
        last == IF stops = {} THEN Len(s)
                ELSE (CHOOSE j \in stops : \A k \in stops : j <= k) - 1
    IN  SubSeq(s, i, last)

\* list holds the non-empty comma-separated segments of s, in order.
IsSegmentsOf(list, s) ==
    LET starts == SegmentStarts(s) IN
    /\ Len(list) = Cardinality(starts)
    /\ \A k \in 1 .. Len(list) :
          \E i \in starts :
              /\ Cardinality({j \in starts : j < i}) = k - 1
              /\ list[k] = SegmentAt(s, i)

\* C10 as stated: zonesListFromZones strips all whitespace, splits on
\* commas, drops empty segments and keeps the order of the others;
\* " a, b ,,c " gives ["a","b","c"], "" gives the empty list, and no
\* returned zone is empty or holds whitespace or a comma.
C10_StripsAllWhitespace ==
    ZonesReturned =>
        /\ IsSegmentsOf(ret.zones, Without(call.zoneNames, Whitespace))
        /\ \A k \in 1 .. Len(ret.zones) :
              /\ ret.zones[k] # <<>>
              /\ \A i \in 1 .. Len(ret.zones[k]) :
                    ret.zones[k][i] \notin Whitespace \cup {Comma}

\* C10 amended: zonesListFromZones strips every space character (U+0020,
\* and no other whitespace), splits on commas, drops empty segments and
\* keeps the order of the others, duplicates included; " a, b ,,c " gives
\* ["a","b","c"], "" gives the empty list, and no returned zone is empty
\* or holds a space or a comma.
C10_StripsSpaces ==
    ZonesReturned =>
        /\ IsSegmentsOf(ret.zones, Without(call.zoneNames, {Space}))
        /\ \A k \in 1 .. Len(ret.zones) :
              /\ ret.zones[k] # <<>>
              /\ \A i \in 1 .. Len(ret.zones[k]) :
                    ret.zones[k][i] \notin {Space, Comma}
        /\ (call.zoneNames = ExampleZones => ret.zones = << <<"a">>, <<"b">>, <<"c">> >>)
        /\ (call.zoneNames = <<>> => ret.zones = <<>>)

\* C10's case: a string with a space before its comma has been parsed: the
\* space is gone and the order of the zones is kept.
C10_Witness ==
    /\ ZonesReturned
    /\ call.zoneNames = <<"b", Space, Comma, "a">>
    /\ ret.zones = << <<"b">>, <<"a">> >>

---------------------------------------------------------------------------
(* The mapping of the response, the endpoint's rejections, cancellation    *)
(* and the order of the stages, under Spec.                                *)

\* query() went through its loop over the rows and returned.
Mapped == cur # None /\ cur.done /\ cur.stages[Len(cur.stages)] \in {"MapResponse", "Emit"}

\* query() returned a frame.
Emitted == Mapped /\ cur.res.Error = NoErr

\* The two fields of the frame the current query returned.
TimeValues == cur.res.Frames[1].Fields[1].Values
HitsValues == cur.res.Frames[1].Fields[2].Values

\* C11: a successful query returns one frame whose time field and value
\* field both hold one entry per row of the response, entry i made from row
\* i (its startdatetime in seconds, its hits), in the order of the rows.
C11_SeriesFollowsRows ==
    Emitted =>
        /\ cur.Data = cur.reply.body.data
        /\ Len(cur.res.Frames) = 1
        /\ Len(TimeValues) = Len(cur.Data)
        /\ Len(HitsValues) = Len(cur.Data)
        /\ \A i \in 1 .. Len(cur.Data) :
              /\ TimeValues[i] = ParseUnixMs(cur.Data[i].StartDateTime).seconds
              /\ HitsValues[i] = ParsedHits(cur.Data[i].Hits).value
        /\ responses[cur.q.RefID] = cur.res

\* C11's case: rows that came newest first, one of them with "N/A" hits,
\* were emitted as they came.
C11_Witness ==
    /\ Emitted
    /\ cur.Data = <<NARow, GoodRow>>
    /\ TimeValues = <<1700000300, 1700000000>>
    /\ HitsValues = <<Zero(FALSE), Finite(FALSE, <<85>>, 0 - 1)>>

\* C12: when every row's time parses, a row whose hits text ParseFloat
\* rejects gets the value 0.0, the query returns its frame and its slot
\* holds no error.
C12_UnparsedHitsAreZero ==
    (Mapped /\ \A i \in 1 .. Len(cur.Data) : ParseUnixMs(cur.Data[i].StartDateTime).ok)
    => /\ cur.res.Error = NoErr
       /\ Len(cur.res.Frames) = 1
       /\ Len(HitsValues) = Len(cur.Data)
       /\ \A i \in 1 .. Len(cur.Data) :
             ~ParsedHits(cur.Data[i].Hits).ok => HitsValues[i] = Zero(FALSE)
       /\ responses[cur.q.RefID].Error = NoErr

\* C13: when some row's startdatetime does not parse as an integer, at
\* whatever position, the query's slot holds the parse error and no frame.
C13_BadTimeFailsTheQuery ==
    (Mapped /\ \E i \in 1 .. Len(cur.Data) : ~ParseUnixMs(cur.Data[i].StartDateTime).ok)
    => /\ cur.res = [Error |-> ErrParseInt, Frames |-> <<>>]
       /\ responses[cur.q.RefID] = cur.res
       /\ pc \in {"loop", "returned"}

\* C13's case: the second row's time did not parse, the first row's did.
C13_Witness ==
    /\ Mapped
    /\ cur.Data = <<GoodRow, BadTimeRow>>
    /\ ParseUnixMs(cur.Data[1].StartDateTime).ok
    /\ cur.res = [Error |-> ErrParseInt, Frames |-> <<>>]

\* The endpoint answered the current query's request with a status other
\* than 200.
Rejected == cur # None /\ cur.reply.kind = "response" /\ cur.reply.status # 200

\* C14: on a status other than 200 gtmOpenApiQuery returns an error, no
\* series and no panic: the first error entry's title when the body decodes
\* and has one, the HTTP status line when the body does not decode, and an
\* error all the same when the body decodes with an empty error list.
C14_RejectionIsAFailure ==
    Rejected
    => /\ pc # "panicked"
       /\ cur.done
       /\ cur.res.Frames = <<>>
       /\ cur.res.Error # NoErr
       /\ (~cur.reply.body.decodes => cur.res.Error = StatusLine(cur.reply.status))
       /\ (cur.reply.body.decodes /\ Len(cur.reply.body.errors) > 0
             => cur.res.Error = cur.reply.body.errors[1])

\* C16: the value field of a successful query is named by the query's
\* metricName when that is not empty, and otherwise by the zone string as
\* the caller wrote it followed by " hits".
C16_SeriesLabel ==
    Emitted =>
        cur.res.Frames[1].Fields[2].Name =
            IF cur.q.MetricName # <<>> THEN cur.q.MetricName
            ELSE cur.q.ZoneNames \o <<" ", "h", "i", "t", "s">>

\* C16's case: a zone string with a space in it and no metric name.
C16_Witness ==
    /\ Emitted
    /\ cur.q.MetricName = <<>>
    /\ cur.q.ZoneNames = <<"a", Comma, Space, "b">>
    /\ cur.res.Frames[1].Fields[2].Name = <<"a", ",", " ", "b", " ", "h", "i", "t", "s">>

\* C17: once the context is cancelled while the query's request is with
\* the endpoint, the query ends with the context's error, without an answer
\* from the endpoint.
C17_CancellationAbortsTheRequest ==
    (cur # None /\ cur.cancelledInFlight /\ pc # "inflight")
    => /\ cur.reply = NoReply
       /\ cur.done
       /\ cur.res = [Error |-> ErrContextCanceled, Frames |-> <<>>]

\* s is a prefix of t.
IsPrefix(s, t) == Len(s) <= Len(t) /\ s = SubSeq(t, 1, Len(s))

\* C19: the stages a query has been through are an initial part of
\* Validate, BuildRequest, Fetch, MapResponse, Emit; the request is built
\* (and sent) only when the query's JSON, its zone string, its window and
\* its parsed zone list have passed; a frame exists only after all five
\* stages, on a 200 answer whose rows all mapped; and a query that failed
\* stopped at the stage that failed: validation, the building of the
\* request, the fetch or the mapping.
C19_StagesInOrder ==
    cur # None =>
        /\ IsPrefix(cur.stages, StageOrder)
        /\ cur.invoked = (Len(cur.stages) >= 2)
        /\ Len(cur.stages) >= 2 =>
              /\ cur.q.jsonOK
              /\ cur.q.ZoneNames # <<>>
              /\ ~WindowBeforeHorizon(cur.q, cur.clock, cur.v.interval)
              /\ ~NoZoneIn(cur.q.ZoneNames)
        /\ Sent > 0 => Len(cur.stages) >= 3
        /\ Len(cur.stages) >= 4 =>
              cur.reply.kind = "response" /\ cur.reply.status = 200
        /\ cur.res.Frames # <<>> =>
              /\ cur.stages = StageOrder
              /\ cur.res.Error = NoErr
              /\ \A i \in 1 .. Len(cur.Data) : ParseUnixMs(cur.Data[i].StartDateTime).ok
        /\ (cur.done /\ cur.res.Error # NoErr) =>
              /\ pc \in {"loop", "returned"}
              /\ Len(cur.stages) =
                    (CASE cur.v.err # NoErr -> 1
                       [] cur.res.Error = ErrNewRequest -> 2
                       [] cur.res.Error = ErrParseInt -> 4
                       [] OTHER -> 3)

\* C19's case: a query stopped in the mapping, after a successful fetch.
C19_Witness ==
    /\ cur # None
    /\ cur.done
    /\ cur.stages = <<"Validate", "BuildRequest", "Fetch", "MapResponse">>
    /\ cur.res.Error = ErrParseInt
    /\ Sent = 1

---------------------------------------------------------------------------
(* CheckHealth and gtmOpenApiHealthCheck.                                  *)

FakeZone == "-fake-"
ExpectedTitle == "Some of the requested objects are unauthorized: [-fake-]"
OtherTitle == "The requested report is not available"

MsgWorking == "Data source is working"
MsgUnexpectedStatus == "Unexpected status code. Datasource failed: "
MsgUnexpectedFormat == "Unexpected response format. Datasource failed: "
MsgUnexpectedError == "Unexpected error type. Datasource failed: "
MsgUnmarshal == "Internal error. Failed to unmarshal healthcheck JSON"

HealthStatusOk == "OK"
HealthStatusError == "ERROR"
HealthStatusUnknown == "UNKNOWN"

\* The message is the sequence of the strings the code concatenates.
\* panic is the index-out-of-range of rspDto.Errors[0] on an empty list.
gtmOpenApiHealthCheck(hostOK, reply, clock) ==
    LET to == clock
        from == to - FiveMinutes
        interval == FIVE_MINUTES
        request == [method |-> "GET",
                    start |-> roundupTimeForInterval(from, interval),
                    end |-> roundupTimeForInterval(to, interval),
                    interval |-> interval, objectIds |-> FakeZone]
        out(sent, message, status) ==
            [request |-> request, sent |-> sent, panic |-> FALSE,
             Message |-> message, Status |-> status]
        panicked == [request |-> request, sent |-> 1, panic |-> TRUE,
                     Message |-> <<>>, Status |-> ""]
    IN  IF ~hostOK THEN out(0, <<ErrNewRequest>>, HealthStatusError)
        ELSE IF reply.kind = "transport"
        THEN out(1, <<ErrTransport>>, HealthStatusError)
        ELSE IF reply.status # 403
        THEN IF ~reply.body.decodes
             THEN out(1, <<MsgUnexpectedStatus, StatusLine(reply.status)>>,
                      HealthStatusError)
             ELSE IF Len(reply.body.errors) = 0 THEN panicked
             ELSE out(1, <<MsgUnexpectedStatus, reply.body.errors[1]>>,
                      HealthStatusError)
        ELSE IF ~reply.body.decodes
        THEN out(1, <<MsgUnexpectedFormat, StatusLine(reply.status)>>,
                 HealthStatusError)
        ELSE IF Len(reply.body.errors) = 0 THEN panicked
        ELSE IF reply.body.errors[1] # ExpectedTitle
        THEN out(1, <<MsgUnexpectedError, reply.body.errors[1]>>, HealthStatusError)
        ELSE out(1, <<MsgWorking>>, HealthStatusOk)

\* CheckHealth: the result and the error it returns.
CheckHealth(dss, reply, clock) ==
    IF ~dss.decodes
    THEN [result |-> [request |-> None, sent |-> 0, panic |-> FALSE,
                      Message |-> <<MsgUnmarshal>>, Status |-> HealthStatusUnknown],
          err |-> ErrSettingsJson]
    ELSE [result |-> gtmOpenApiHealthCheck(dss.hostOK, reply, clock),
          err |-> NoErr]

HealthStatuses == {200, 401, 403, 404, 500}

\* Bodies as they decode into OpenApiErrorRspDto: not at all; with no error
\* entry; with the expected title, another title, or both, first.
HealthBodies ==
    {[decodes |-> FALSE, errors |-> <<>>, data |-> <<>>]}
    \cup
    {[decodes |-> TRUE, errors |-> e, data |-> <<>>] :
        e \in {<<>>, <<ExpectedTitle>>, <<OtherTitle>>,
               <<OtherTitle, ExpectedTitle>>, <<ExpectedTitle, OtherTitle>>}}

HealthReplySamples ==
    {[kind |-> "transport", status |-> 0,
      body |-> [decodes |-> FALSE, errors |-> <<>>, data |-> <<>>]]}
    \cup
    {[kind |-> "response", status |-> c, body |-> b] :
        c \in HealthStatuses, b \in HealthBodies}

InitHealth ==
    /\ arch \in {"wrap"}
    /\ now \in NowSamples
    /\ call = [op |-> "CheckHealth"]
    /\ ret = None
    /\ ret2 = None
    /\ pc = "health"
    /\ settings \in [decodes : BOOLEAN, hostOK : BOOLEAN]
    /\ user \in BOOLEAN
    /\ nQueries = 0
    /\ idx = 0
    /\ cur = None
    /\ responses = <<>>
    /\ retErr = NoErr
    /\ netCalls = 0
    /\ refs = <<>>
    /\ ctx = "live"

\* CheckHealth up to client.Do: the settings are decoded, the window is
\* taken from the clock and the request is built and sent; CheckHealth
\* returns at once when the settings do not decode or no request can be
\* built.  No answer is looked at: NoReply stands in for it.
CheckHealthSend ==
    /\ pc = "health"
    /\ LET h == CheckHealth(settings, NoReply, now)
           waits == settings.decodes /\ settings.hostOK
       IN  /\ pc' = IF waits THEN "healthInflight" ELSE "healthReturned"
           /\ call' = [op |-> "CheckHealth", clock |-> now]
           /\ ret' = IF waits THEN None ELSE [health |-> h.result, reply |-> NoReply]
           /\ retErr' = IF waits THEN NoErr ELSE h.err
           /\ netCalls' = netCalls + (IF waits THEN 1 ELSE 0)
    /\ UNCHANGED <<arch, now, ret2, settings, user, nQueries, idx, cur,
                   responses, refs, ctx>>

\* client.Do returns with the endpoint's answer and CheckHealth finishes.
CheckHealthReceive(reply) ==
    /\ pc = "healthInflight"
    /\ LET h == CheckHealth(settings, reply, call.clock) IN
       /\ pc' = IF h.result.panic THEN "panicked" ELSE "healthReturned"
       /\ ret' = [health |-> h.result, reply |-> reply]
       /\ retErr' = h.err
    /\ UNCHANGED <<arch, now, call, ret2, settings, user, nQueries, idx, cur,
                   responses, netCalls, refs, ctx>>

NextHealth ==
    \/ CheckHealthSend
    \/ \E reply \in HealthReplySamples : CheckHealthReceive(reply)
    \/ Tick
    \/ Cancel

SpecHealth == InitHealth /\ [][NextHealth]_vars

\* CheckHealth has run with settings that decode.
HealthChecked ==
    /\ call # None
    /\ call.op = "CheckHealth"
    /\ ret # None
    /\ settings.decodes

\* The one answer that shows the data source works.
IsExpectedRefusal(reply) ==
    /\ reply.kind = "response"
    /\ reply.status = 403
    /\ reply.body.decodes
    /\ Len(reply.body.errors) > 0
    /\ reply.body.errors[1] = ExpectedTitle

\* C15: the health check reports OK with "Data source is working" exactly
\* when the endpoint answers 403 with a body that decodes and whose first
\* error title is the expected one; in every other case (no request built,
\* a transport failure, another status, another body, a body without error
\* entries) it returns the status Error with a message.
C15_HealthIsPassOrError ==
    HealthChecked =>
        /\ ~ret.health.panic
        /\ (ret.health.Status = HealthStatusOk) = IsExpectedRefusal(ret.reply)
        /\ ret.health.Status = HealthStatusOk => ret.health.Message = <<MsgWorking>>
        /\ ret.health.Status # HealthStatusOk =>
              /\ ret.health.Status = HealthStatusError
              /\ ret.health.Message # <<>>

---------------------------------------------------------------------------
(* The interval the handlers pass on, and the order of the window.         *)

\* C18: no interval other than FIVE_MINUTES and HOUR reaches the window
\* aligner or roundupTimeForInterval from QueryData or CheckHealth, so the
\* aligner returns no window for another interval: the interval of every
\* query that got as far as the window check, whatever the check returned,
\* is one of the two, and so is the interval of the request that the health
\* check rounds its window for and sends, for every host, reply and clock.
HealthIntervals ==
    {gtmOpenApiHealthCheck(hostOK, reply, clock).request.interval :
        hostOK \in BOOLEAN, reply \in HealthReplySamples, clock \in NowSamples}

C18_IntervalIsSupported ==
    /\ ReachedWindowCheck => cur.v.interval \in {FIVE_MINUTES, HOUR}
    /\ HealthIntervals \subseteq {FIVE_MINUTES, HOUR}

\* C18's case: the aligner returned a window with no error for a query
\* whose range and panel make the interval HOUR, and moved its from.
C18_Witness ==
    /\ ReachedWindowCheck
    /\ cur.v.err = NoErr
    /\ cur.v.interval = HOUR
    /\ cur.v.from # cur.q.From

\* C20: when adjustQueryTimes succeeds for FIVE_MINUTES or HOUR on a window
\* with from <= to, the from it returns is <= the to it returns.
C20_OrderPreserved ==
    (AlignSucceeded /\ call.from <= call.to) => ret.from <= ret.to

\* C20's case: from was before the oldest data and was moved up to it, and
\* to was rounded onto the same boundary: the window came out empty, not
\* reversed.
C20_Witness ==
    /\ AlignSucceeded
    /\ call.from < call.to
    /\ ret.from > NearestBoundary(call.from, BucketOf(call.interval))
    /\ ret.to # call.to
    /\ ret.from = ret.to

---------------------------------------------------------------------------
(* The shape of the slots and the statuses of the endpoint, under Spec.    *)

\* A slot that holds an error and no frame.
IsErrorSlot(slot) == slot.Error # NoErr /\ slot.Frames = <<>>

\* A slot that holds no error and one frame of two fields, the time and
\* the values, of one length.
IsSeriesSlot(slot) ==
    /\ slot.Error = NoErr
    /\ Len(slot.Frames) = 1
    /\ Len(slot.Frames[1].Fields) = 2
    /\ slot.Frames[1].Fields[1].Name = <<"t", "i", "m", "e">>
    /\ Len(slot.Frames[1].Fields[1].Values) = Len(slot.Frames[1].Fields[2].Values)

\* C21: every slot of the response, and the result of every query that
\* returned, is an error with no frame or no error with one frame of two
\* fields of equal length; never an error with a frame, never neither.
C21_SlotIsErrorOrSeries ==
    /\ \A r \in DOMAIN responses :
          IsErrorSlot(responses[r]) \/ IsSeriesSlot(responses[r])
    /\ (cur # None /\ cur.done /\ pc # "panicked")
          => IsErrorSlot(cur.res) \/ IsSeriesSlot(cur.res)

\* C21's case: one response holds a slot of each shape, the series with
\* rows in it.
C21_Witness ==
    \E r1, r2 \in DOMAIN responses :
        /\ IsErrorSlot(responses[r1])
        /\ IsSeriesSlot(responses[r2])
        /\ Len(responses[r2].Frames[1].Fields[1].Values) = 2

\* The endpoint answered the current query's request with status 200 and
\* a body that Decode returned an error for.
UndecodedSuccess ==
    /\ cur # None
    /\ cur.reply.kind = "response"
    /\ cur.reply.status = 200
    /\ ~cur.reply.body.decodes

\* gtmOpenApiQuery returned the rows of the answer and no error, and the
\* query went on to map them.
FetchedWithoutError ==
    /\ pc # "panicked"
    /\ cur.Data = cur.reply.body.data
    /\ ~cur.done => pc = "map" /\ cur.res.Error = NoErr
    /\ cur.done => Mapped

\* The current query returned the series of the rows in cur.Data.
EmittedSeriesOfData ==
    /\ Emitted
    /\ Len(cur.res.Frames) = 1
    /\ Len(TimeValues) = Len(cur.Data)
    /\ Len(HitsValues) = Len(cur.Data)
    /\ responses[cur.q.RefID] = cur.res

\* C22 as stated: on a 200 answer whose body does not decode,
\* gtmOpenApiQuery returns no error and the query emits a series of the
\* rows that were decoded, an empty one when none were.
C22_UndecodedSuccessEmits ==
    UndecodedSuccess =>
        /\ FetchedWithoutError
        /\ cur.done => EmittedSeriesOfData

\* C22 amended: on a 200 answer whose body does not decode,
\* gtmOpenApiQuery returns no error and the query maps the rows that were
\* decoded: it emits their series (an empty one when none were) when every
\* decoded row's startdatetime parses, and fails with the parse error and
\* no frame when one does not.
C22_UndecodedSuccessIsMapped ==
    UndecodedSuccess =>
        /\ FetchedWithoutError
        /\ cur.done =>
              IF \A i \in 1 .. Len(cur.Data) : ParseUnixMs(cur.Data[i].StartDateTime).ok
              THEN EmittedSeriesOfData
              ELSE /\ cur.res = [Error |-> ErrParseInt, Frames |-> <<>>]
                   /\ responses[cur.q.RefID] = cur.res

\* C22's case: the body did not decode, two rows had been decoded and the
\* query emitted them.
C22_Witness ==
    /\ UndecodedSuccess
    /\ Emitted
    /\ cur.Data = <<NARow, GoodRow>>
    /\ Len(TimeValues) = 2

\* C23: an answer with any status other than 200, 201 and 204 included,
\* ends the query with an error that is the status line or the first error
\* title, with no frame, without the rows of the body being mapped.
C23_OnlyStatus200Succeeds ==
    (cur # None /\ cur.reply.kind = "response" /\ cur.reply.status # 200)
    => /\ pc \in {"loop", "returned"}
       /\ cur.done
       /\ cur.stages = <<"Validate", "BuildRequest", "Fetch">>
       /\ cur.Data = <<>>
       /\ cur.res.Frames = <<>>
       /\ cur.res.Error \in {StatusLine(cur.reply.status)} \cup Range(cur.reply.body.errors)
       /\ responses[cur.q.RefID] = cur.res

=============================================================================
